---------------------------- MODULE Spec2Model ----------------------------
(***************************************************************************)
(* A model of soliscloud_api/types.py: the Dimensioned Value families, the *)
(* unit resolver, the typed value dispatcher and the record walker         *)
(* (SolisDataFactory).                                                     *)
(*                                                                         *)
(* Python numbers are modelled exactly.  A Python int is an unbounded      *)
(* integer, a Python float is an IEEE-754 binary64 value; both are held    *)
(* as sign + magnitude, the magnitude being a natural number written as a  *)
(* little-endian sequence of limbs in base 2^15 (TLC's own integers are    *)
(* 32 bits wide and cannot hold 10^12 or a 53 bit significand).            *)
(***************************************************************************)
EXTENDS Integers, Sequences, FiniteSets, TLC

\* F applied to the value of v, which is evaluated once
Bind(v, F(_)) == CHOOSE out \in {F(b) : b \in {v}} : TRUE

(***************************************************************************)
(* Natural numbers of any size: <<>> is 0, no leading (last) zero limb.    *)
(***************************************************************************)
LB == 2^15

RECURSIVE Pow2(_)
Pow2(n) == IF n = 0 THEN 1 ELSE 2 * Pow2(n - 1)

RECURSIVE BNorm(_)
BNorm(a) ==
    IF a = <<>> THEN <<>>
    ELSE IF a[Len(a)] = 0 THEN BNorm(SubSeq(a, 1, Len(a) - 1))
    ELSE a

BHead(a) == IF a = <<>> THEN 0 ELSE Head(a)
BTail(a) == IF a = <<>> THEN <<>> ELSE Tail(a)

RECURSIVE BAddC(_, _, _)
BAddC(a, b, c) ==
    IF a = <<>> /\ b = <<>> THEN (IF c = 0 THEN <<>> ELSE <<c>>)
    ELSE LET x == BHead(a) + BHead(b) + c
         IN  <<x % LB>> \o BAddC(BTail(a), BTail(b), x \div LB)

BAdd(a, b) == BAddC(a, b, 0)

\* a - b for a >= b
RECURSIVE BSubB(_, _, _)
BSubB(a, b, c) ==
    IF a = <<>> THEN <<>>
    ELSE LET x == Head(a) - BHead(b) - c
         IN  IF x < 0 THEN <<x + LB>> \o BSubB(Tail(a), BTail(b), 1)
             ELSE <<x>> \o BSubB(Tail(a), BTail(b), 0)

BSub(a, b) == BNorm(BSubB(a, b, 0))

\* -1, 0, 1 as a < b, a = b, a > b
RECURSIVE BCmpAt(_, _, _)
BCmpAt(a, b, i) ==
    IF i = 0 THEN 0
    ELSE IF a[i] < b[i] THEN -1
    ELSE IF a[i] > b[i] THEN 1
    ELSE BCmpAt(a, b, i - 1)

BCmp(a, b) ==
    IF Len(a) < Len(b) THEN -1
    ELSE IF Len(a) > Len(b) THEN 1
    ELSE BCmpAt(a, b, Len(a))

\* a * k + c for 0 <= k < LB
RECURSIVE BMulSmallC(_, _, _)
BMulSmallC(a, k, c) ==
    IF a = <<>> THEN (IF c = 0 THEN <<>> ELSE <<c>>)
    ELSE LET x == Head(a) * k + c
         IN  <<x % LB>> \o BMulSmallC(Tail(a), k, x \div LB)

BMulSmall(a, k) == IF k = 0 THEN <<>> ELSE BMulSmallC(a, k, 0)

BShiftLimb(a) == IF a = <<>> THEN <<>> ELSE <<0>> \o a

RECURSIVE BMul(_, _)
BMul(a, b) ==
    IF a = <<>> \/ b = <<>> THEN <<>>
    ELSE BAdd(BMulSmall(a, Head(b)), BShiftLimb(BMul(a, Tail(b))))

\* <<quotient, remainder>> of a by 0 < k <= LB, from the top limb down; q holds
\* the quotient limbs found so far and r the running remainder
RECURSIVE BDivSmallR(_, _, _, _, _)
BDivSmallR(a, k, i, q, r) ==
    IF i = 0 THEN <<BNorm(q), r>>
    ELSE BDivSmallR(a, k, i - 1, <<(r * LB + a[i]) \div k>> \o q,
                    (r * LB + a[i]) % k)

BDivSmallQR(a, k) == BDivSmallR(a, k, Len(a), <<>>, 0)
BDivSmall(a, k) == BDivSmallQR(a, k)[1]

RECURSIVE Zeros(_)
Zeros(n) == IF n = 0 THEN <<>> ELSE <<0>> \o Zeros(n - 1)

\* a * 2^n
BShl(a, n) ==
    IF a = <<>> THEN <<>>
    ELSE Zeros(n \div 15) \o BMulSmall(a, Pow2(n % 15))

\* floor(a / 2^n)
BShr(a, n) ==
    IF n \div 15 >= Len(a) THEN <<>>
    ELSE BDivSmall(SubSeq(a, (n \div 15) + 1, Len(a)), Pow2(n % 15))

RECURSIVE BitLenSmall(_)
BitLenSmall(x) == IF x = 0 THEN 0 ELSE 1 + BitLenSmall(x \div 2)

BBitLen(a) == IF a = <<>> THEN 0 ELSE 15 * (Len(a) - 1) + BitLenSmall(a[Len(a)])

BBit(a, i) ==
    IF i \div 15 >= Len(a) THEN 0
    ELSE (a[(i \div 15) + 1] \div Pow2(i % 15)) % 2

BIsOdd(a) == a # <<>> /\ a[1] % 2 = 1

\* One quotient limb of r by d, where d's top limb is at least LB / 2 and
\* d <= r < d * LB: the estimate from the top limbs is at most 2 too large.
RECURSIVE BQCorrect(_, _, _)
BQCorrect(r, d, qh) ==
    IF BCmp(BMulSmall(d, qh), r) > 0 THEN BQCorrect(r, d, qh - 1) ELSE qh

BQEstimate(top, dtop) == IF top \div dtop >= LB THEN LB - 1 ELSE top \div dtop

BQDigit(r, d) ==
    IF BCmp(r, d) < 0 THEN 0
    ELSE BQCorrect(r, d,
           BQEstimate((IF Len(r) > Len(d) THEN r[Len(d) + 1] ELSE 0) * LB
                        + r[Len(d)],
                      d[Len(d)]))

\* <<quotient, remainder>> of n by d, d's top limb at least LB / 2: long
\* division from the top limb down; q holds the quotient limbs found so far,
\* r the running remainder
RECURSIVE BDivModR(_, _, _, _, _)
BDivModStep(n, d, i, q, r2, qd) ==
    BDivModR(n, d, i - 1, <<qd>> \o q, BSub(r2, BMulSmall(d, qd)))
BDivModLimb(n, d, i, q, r2) ==
    BDivModStep(n, d, i, q, r2, BQDigit(r2, d))
BDivModR(n, d, i, q, r) ==
    IF i = 0 THEN <<BNorm(q), r>>
    ELSE BDivModLimb(n, d, i, q, BNorm(<<n[i]>> \o r))

\* <<quotient, remainder>> of n by d # 0, both scaled by 2^k first
BDivModScaled(qr, k) == <<qr[1], BShr(qr[2], k)>>
BDivModBy(n, d, k) ==
    BDivModScaled(BDivModR(BShl(n, k), BShl(d, k), Len(BShl(n, k)), <<>>, <<>>), k)
BDivMod(n, d) == BDivModBy(n, d, 15 - BitLenSmall(d[Len(d)]))

\* a small TLC natural as a big natural
RECURSIVE BOf(_)
BOf(x) == IF x = 0 THEN <<>> ELSE <<x % LB>> \o BOf(x \div LB)

RECURSIVE BPow10(_)
BPow10(k) == IF k = 0 THEN <<1>> ELSE BMulSmall(BPow10(k - 1), 10)

(***************************************************************************)
(* IEEE-754 binary64 values, finite and normal: neg, mag, exp stand for    *)
(* (-1)^neg * mag * 2^exp with 2^52 <= mag < 2^53, and zero is mag = <<>>, *)
(* exp = 0.  Every operation rounds its exact result to nearest, ties to   *)
(* even, as the hardware does.  The values the model feeds in stay far     *)
(* from the overflow and subnormal ranges.                                 *)
(***************************************************************************)
FZero == [t |-> "float", neg |-> FALSE, mag |-> <<>>, exp |-> 0]

\* the binary64 nearest to (-1)^neg * (m + f) * 2^e, where 0 <= f < 1 and
\* sticky says f > 0 (the lost part of a quotient)
FRoundPack(neg, q2, e) ==
    IF BBitLen(q2) = 54
    THEN [t |-> "float", neg |-> neg, mag |-> BShr(q2, 1), exp |-> e + 1]
    ELSE [t |-> "float", neg |-> neg, mag |-> q2, exp |-> e]

\* q is m without its s low bits; c compares those bits with a half
FRoundUp(neg, q, e, sticky, c) ==
    IF c > 0 \/ (c = 0 /\ (sticky \/ BIsOdd(q)))
    THEN FRoundPack(neg, BAddC(q, <<>>, 1), e)
    ELSE FRoundPack(neg, q, e)

FRoundCut(neg, m, e, sticky, s, q) ==
    FRoundUp(neg, q, e + s, sticky,
             BCmp(BSub(m, BShl(q, s)), BShl(<<1>>, s - 1)))

FRoundLen(neg, m, e, sticky, n) ==
    IF n <= 53
    THEN [t |-> "float", neg |-> neg, mag |-> BShl(m, 53 - n),
          exp |-> e - (53 - n)]
    ELSE FRoundCut(neg, m, e, sticky, n - 53, BShr(m, n - 53))

FRound(neg, m, e, sticky) ==
    IF m = <<>> THEN FZero ELSE FRoundLen(neg, m, e, sticky, BBitLen(m))

FMul(a, b) == FRound(a.neg # b.neg, BMul(a.mag, b.mag), a.exp + b.exp, FALSE)

\* a / b for b # 0: 57 or 58 quotient bits, the remainder is the sticky bit
FDivQR(neg, qr, e) == FRound(neg, qr[1], e, qr[2] # <<>>)
FDiv(a, b) ==
    IF a.mag = <<>> THEN FZero
    ELSE FDivQR(a.neg # b.neg, BDivMod(BShl(a.mag, 57), b.mag),
                a.exp - b.exp - 57)

\* the two magnitudes over the common exponent min(a.exp, b.exp)
FAlignA(a, b) == IF a.exp > b.exp THEN BShl(a.mag, a.exp - b.exp) ELSE a.mag
FMinExp(a, b) == IF a.mag = <<>> THEN b.exp
                 ELSE IF b.mag = <<>> THEN a.exp
                 ELSE IF a.exp < b.exp THEN a.exp ELSE b.exp

\* -1, 0, 1 as a < b, a = b, a > b
FCmp(a, b) ==
    IF a.mag = <<>> /\ b.mag = <<>> THEN 0
    ELSE IF a.mag = <<>> THEN (IF b.neg THEN 1 ELSE -1)
    ELSE IF b.mag = <<>> THEN (IF a.neg THEN -1 ELSE 1)
    ELSE IF a.neg /\ ~b.neg THEN -1
    ELSE IF ~a.neg /\ b.neg THEN 1
    ELSE IF a.neg THEN BCmp(FAlignA(b, a), FAlignA(a, b))
    ELSE BCmp(FAlignA(a, b), FAlignA(b, a))

FNeg(a) == IF a.mag = <<>> THEN a ELSE [a EXCEPT !.neg = ~a.neg]

\* ma, mb are the magnitudes over the common exponent e
FAddAligned(aneg, ma, bneg, mb, e) ==
    IF aneg = bneg THEN FRound(aneg, BAdd(ma, mb), e, FALSE)
    ELSE IF BCmp(ma, mb) = 0 THEN FZero
    ELSE IF BCmp(ma, mb) > 0 THEN FRound(aneg, BSub(ma, mb), e, FALSE)
    ELSE FRound(bneg, BSub(mb, ma), e, FALSE)

FAdd(a, b) ==
    IF a.mag = <<>> THEN b
    ELSE IF b.mag = <<>> THEN a
    ELSE FAddAligned(a.neg, FAlignA(a, b), b.neg, FAlignA(b, a), FMinExp(a, b))

FSub(a, b) == FAdd(a, FNeg(b))

\* the integer part of |a| (truncation towards zero)
FTruncMag(a) ==
    IF a.mag = <<>> THEN <<>>
    ELSE IF a.exp >= 0 THEN BShl(a.mag, a.exp)
    ELSE BShr(a.mag, 0 - a.exp)

FIsWhole(a) ==
    \/ a.mag = <<>>
    \/ a.exp >= 0
    \/ BShl(BShr(a.mag, 0 - a.exp), 0 - a.exp) = a.mag

(***************************************************************************)
(* Python values.  An int is [t |-> "int", neg, mag], a float is as above, *)
(* None is [t |-> "none"], a str is [t |-> "str", s |-> <characters>].     *)
(***************************************************************************)
PyNone == [t |-> "none"]
PyStr(chars) == [t |-> "str", s |-> chars]
PyIntOf(neg, mag) == [t |-> "int", neg |-> (neg /\ mag # <<>>), mag |-> mag]

\* the int n, for a TLC integer n
I(n) == IF n < 0 THEN PyIntOf(TRUE, BOf(0 - n)) ELSE PyIntOf(FALSE, BOf(n))

IsNum(v) == v.t \in {"int", "float"}

\* float(i) of an int
IntToFloat(i) == FRound(i.neg, i.mag, 0, FALSE)

\* the operand of a float operation: an int is converted first
AsFloat(v) == IF v.t = "int" THEN IntToFloat(v) ELSE v

\* the float literal or parsed numeral n / 10^k, correctly rounded
\* q / 10^k as <<floor, inexact>>, one division by 10 at a time
RECURSIVE DivPow10(_, _, _)
DivPow10Step(qr, sticky, k) == DivPow10(qr[1], sticky \/ qr[2] # 0, k - 1)
DivPow10(q, sticky, k) ==
    IF k = 0 THEN <<q, sticky>>
    ELSE DivPow10Step(BDivSmallQR(q, 10), sticky, k)

DecRound(neg, qs, e) == FRound(neg, qs[1], e, qs[2])
DecOf(neg, mag, k) ==
    IF mag = <<>> THEN FZero
    ELSE DecRound(neg, DivPow10(BShl(mag, 4 * k + 57), FALSE, k),
                  0 - (4 * k + 57))

\* the float n / 10^k, for a TLC integer n
D(n, k) == IF n < 0 THEN DecOf(TRUE, BOf(0 - n), k) ELSE DecOf(FALSE, BOf(n), k)

\* int(f) of a float
FloatToInt(f) == PyIntOf(f.neg, FTruncMag(f))

\* x == y of two numbers (Python compares an int and a float by value)
NumEq(x, y) ==
    IF x.t = "int" /\ y.t = "int" THEN x = y
    ELSE IF x.t = "float" /\ y.t = "float" THEN FCmp(x, y) = 0
    ELSE IF x.t = "float" THEN FIsWhole(x) /\ FloatToInt(x) = y
    ELSE FIsWhole(y) /\ FloatToInt(y) = x

\* x * y, x / y, x - y where at least one operand is a float, and int / int
NumMul(x, y) == FMul(AsFloat(x), AsFloat(y))
NumDiv(x, y) == FDiv(AsFloat(x), AsFloat(y))
NumSub(x, y) == FSub(AsFloat(x), AsFloat(y))
NumLess(x, y) == FCmp(AsFloat(x), AsFloat(y)) < 0

(***************************************************************************)
(* Strings are sequences of characters, so that slicing, suffix tests and  *)
(* regular expressions act on them as they do in the code.  The micro sign *)
(* and the degree Celsius sign are the single characters "micro" and       *)
(* "degC".                                                                 *)
(***************************************************************************)
Digits == <<"0", "1", "2", "3", "4", "5", "6", "7", "8", "9">>
IsDigit(c) == \E i \in 1..10 : Digits[i] = c
DigitVal(c) == (CHOOSE i \in 1..10 : Digits[i] = c) - 1

UpperChars == <<"A", "B", "C", "D", "E", "F", "G", "H", "I", "J", "K", "L", "M",
                "N", "O", "P", "Q", "R", "S", "T", "U", "V", "W", "X", "Y", "Z">>
LowerChars == <<"a", "b", "c", "d", "e", "f", "g", "h", "i", "j", "k", "l", "m",
                "n", "o", "p", "q", "r", "s", "t", "u", "v", "w", "x", "y", "z">>
IsUpper(c) == \E i \in 1..26 : UpperChars[i] = c
IsLower(c) == \E i \in 1..26 : LowerChars[i] = c
LowerChar(c) ==
    IF IsUpper(c) THEN LowerChars[CHOOSE i \in 1..26 : UpperChars[i] = c] ELSE c

\* str.lower()
Lower(s) == [i \in 1..Len(s) |-> LowerChar(s[i])]

\* s[-n:] and s[:-n] and s[:n] of Python, for n > 0
LastN(s, n) == IF Len(s) <= n THEN s ELSE SubSeq(s, Len(s) - n + 1, Len(s))
DropLastN(s, n) == IF Len(s) <= n THEN <<>> ELSE SubSeq(s, 1, Len(s) - n)
FirstN(s, n) == IF Len(s) <= n THEN s ELSE SubSeq(s, 1, n)

\* str.endswith, and re.search of a literal
EndsWith(s, suf) == Len(s) >= Len(suf) /\ SubSeq(s, Len(s) - Len(suf) + 1, Len(s)) = suf
Contains(s, sub) ==
    \E i \in 1..(Len(s) - Len(sub) + 1) : SubSeq(s, i, i + Len(sub) - 1) = sub

AllDigits(s) == s # <<>> /\ \A i \in 1..Len(s) : IsDigit(s[i])

\* the natural number a string of digits writes
RECURSIVE DigitsToBig(_, _, _)
DigitsToBig(s, i, acc) ==
    IF i > Len(s) THEN acc
    ELSE DigitsToBig(s, i + 1, BAddC(BMulSmall(acc, 10), <<>>, DigitVal(s[i])))

IsNegNumeral(s) == s # <<>> /\ s[1] = "-"
Unsigned(s) == IF IsNegNumeral(s) THEN Tail(s) ELSE s
DotAt(s) == IF \E i \in 1..Len(s) : s[i] = "." THEN CHOOSE i \in 1..Len(s) : s[i] = "." ELSE 0

\* the plain numerals: [-]digits and [-]digits.digits
IsIntNumeral(s) == AllDigits(Unsigned(s))
IsDecNumeral(s) ==
    LET u == Unsigned(s)
        d == DotAt(u)
    IN  /\ d > 1 /\ d < Len(u)
        /\ AllDigits(SubSeq(u, 1, d - 1))
        /\ AllDigits(SubSeq(u, d + 1, Len(u)))

(***************************************************************************)
(* Exceptions are values: an operation that raises returns Raise(name),    *)
(* and every caller hands it on, as the interpreter unwinds.               *)
(***************************************************************************)
Raise(e) == [t |-> "exc", e |-> e]
IsExc(v) == "t" \in DOMAIN v /\ v.t = "exc"

\* float(value)
ParseFloat(s) ==
    IF IsIntNumeral(s)
    THEN FRound(IsNegNumeral(s), DigitsToBig(Unsigned(s), 1, <<>>), 0, FALSE)
    ELSE IF IsDecNumeral(s)
    THEN DecOf(IsNegNumeral(s),
               DigitsToBig(SelectSeq(Unsigned(s), IsDigit), 1, <<>>),
               Len(Unsigned(s)) - DotAt(Unsigned(s)))
    ELSE Raise("ValueError")

ToFloat(v) ==
    IF v.t = "int" THEN IntToFloat(v)
    ELSE IF v.t = "float" THEN v
    ELSE IF v.t = "str" THEN ParseFloat(v.s)
    ELSE Raise("TypeError")

\* int(value)
ToInt(v) ==
    IF v.t = "int" THEN v
    ELSE IF v.t = "float" THEN FloatToInt(v)
    ELSE IF v.t = "str"
    THEN (IF IsIntNumeral(v.s)
          THEN PyIntOf(IsNegNumeral(v.s), DigitsToBig(Unsigned(v.s), 1, <<>>))
          ELSE Raise("ValueError"))
    ELSE Raise("TypeError")

(***************************************************************************)
(* Dimensioned values.  An instance is [t |-> "dim", cls, d], d being the  *)
(* instance's dictionary: the keys "value" and "unit" and, once set,       *)
(* "original_value" and "original_unit".                                   *)
(***************************************************************************)
SetItem(d, k, v) == (k :> v) @@ d
HasKey(d, k) == k \in DOMAIN d
Dim(cls, d) == [t |-> "dim", cls |-> cls, d |-> d]

\* if x == int(x): x = int(x)
WholeToInt(x) == IF x.t = "float" /\ FIsWhole(x) THEN FloatToInt(x) ELSE x

_round_to_int(d) ==
    IF HasKey(d, "original_value")
    THEN SetItem(SetItem(d, "value", WholeToInt(d["value"])),
                 "original_value", WholeToInt(d["original_value"]))
    ELSE SetItem(d, "value", WholeToInt(d["value"]))

\* DimensionedType.__init__ up to its call of _normalize: the dictionary, or
\* the exception float(value) raises
DimensionedDict(f, unit) ==
    IF IsExc(f) THEN f ELSE ("value" :> f) @@ ("unit" :> unit)
DimensionedInit(value, unit) == DimensionedDict(ToFloat(value), unit)

\* GenericType._normalize rounds; CurrencyType._normalize does nothing
GenericNormalize(d) == IF IsExc(d) THEN d ELSE Dim("GenericType", _round_to_int(d))
GenericType(value, unit) == GenericNormalize(DimensionedInit(value, unit))

CurrencyNormalize(d) == IF IsExc(d) THEN d ELSE Dim("CurrencyType", d)
CurrencyType(value, unit) == CurrencyNormalize(DimensionedInit(value, unit))

\* SiType.PREFIXES, and MULTIPLIERS[PREFIXES[i]] = 10 ** (3 * (5 - i)): an int
\* for an exponent >= 0 and a float below
PREFIXES == << <<"T">>, <<"G">>, <<"M">>, <<"k">>, <<>>, <<"m">>, <<"micro">> >>
PrefixIndex(p) == CHOOSE i \in 1..7 : PREFIXES[i] = p
IsPrefix(p) == \E i \in 1..7 : PREFIXES[i] = p
MULTIPLIERS(p) ==
    IF PrefixIndex(p) <= 5
    THEN PyIntOf(FALSE, BPow10(3 * (5 - PrefixIndex(p))))
    ELSE DecOf(FALSE, <<1>>, 3 * (PrefixIndex(p) - 5))

SiClasses == {"EnergyType", "VoltageType", "CurrentType", "PowerType",
              "ReactivePowerType", "ApparentPowerType", "FrequencyType"}

BASE_UNIT(cls) ==
    CASE cls = "EnergyType"        -> <<"W", "h">>
      [] cls = "VoltageType"       -> <<"V">>
      [] cls = "CurrentType"       -> <<"A">>
      [] cls = "PowerType"         -> <<"W">>
      [] cls = "ReactivePowerType" -> <<"v", "a", "r">>
      [] cls = "ApparentPowerType" -> <<"V", "A">>
      [] cls = "FrequencyType"     -> <<"H", "z">>

DEFAULT_PREFIX(cls) == IF cls = "EnergyType" THEN PREFIXES[4] ELSE PREFIXES[5]
DEFAULT_MULTIPLIER(cls) == MULTIPLIERS(DEFAULT_PREFIX(cls))
DEFAULT(cls) == PyStr(DEFAULT_PREFIX(cls) \o BASE_UNIT(cls))
UNITS(cls) == {PyStr(PREFIXES[i] \o BASE_UNIT(cls)) : i \in 1..7}

\* the classes whose __init__ calls _normalize once more after SiType.__init__
NormalizesTwice(cls) ==
    cls \in {"PowerType", "ReactivePowerType", "ApparentPowerType", "FrequencyType"}

\* unit[:-len(BASE_UNIT)]
SiPrefixOf(cls, unit) == DropLastN(unit.s, Len(BASE_UNIT(cls)))

\* SiType._normalize on the dictionary d, with the unit already defaulted
SiNormalizePrefix(cls, d, unit, prefix) ==
    IF ~IsPrefix(prefix) THEN Raise("UnitError")
    ELSE SetItem(
           _round_to_int(
             SetItem(SetItem(SetItem(d, "original_value", d["value"]),
                             "original_unit", unit),
                     "value",
                     NumMul(d["value"],
                            NumDiv(MULTIPLIERS(prefix), DEFAULT_MULTIPLIER(cls))))),
           "unit", DEFAULT(cls))

SiNormalizeUnit(cls, d, unit) ==
    SiNormalizePrefix(cls, d, unit, SiPrefixOf(cls, unit))

SiNormalize(cls, d) ==
    IF IsExc(d) THEN d
    ELSE SiNormalizeUnit(cls, d,
                         IF d["unit"] = PyNone THEN DEFAULT(cls) ELSE d["unit"])

SiSecondNormalize(cls, d) ==
    IF NormalizesTwice(cls) THEN SiNormalize(cls, d) ELSE d

SiWrap(cls, d) == IF IsExc(d) THEN d ELSE Dim(cls, d)

\* EnergyType(value, unit) ... FrequencyType(value, unit)
SiType(cls, value, unit) ==
    IF unit # PyNone /\ unit \notin UNITS(cls) THEN Raise("UnitError")
    ELSE SiWrap(cls, SiSecondNormalize(cls,
                        SiNormalize(cls, DimensionedInit(value, unit))))

\* to_unit with the ratio of the multipliers upside down
to_unit_inverted(self, unit) ==
    IF unit \notin UNITS(self.cls) THEN Raise("UnitError")
    ELSE WholeToInt(NumMul(self.d["value"],
                           NumDiv(MULTIPLIERS(SiPrefixOf(self.cls, unit)),
                                  DEFAULT_MULTIPLIER(self.cls))))

\* SiType.to_unit of the instance self
to_unit(self, unit) ==
    IF unit \notin UNITS(self.cls) THEN Raise("UnitError")
    ELSE WholeToInt(NumMul(self.d["value"],
                           NumDiv(DEFAULT_MULTIPLIER(self.cls),
                                  MULTIPLIERS(SiPrefixOf(self.cls, unit)))))

DegC == PyStr(<<"degC">>)
TempUNITS == <<DegC, PyStr(<<"F">>), PyStr(<<"K">>)>>
KELVIN == D(27315, 2)

TempConverted(d) ==
    IF d["unit"] = TempUNITS[1] THEN d["value"]
    ELSE IF d["unit"] = TempUNITS[2]
    THEN NumDiv(NumMul(NumSub(d["value"], I(32)), I(5)), I(9))
    ELSE IF d["unit"] = TempUNITS[3] THEN NumSub(d["value"], KELVIN)
    ELSE d["value"]

\* TemperatureType._normalize
TempNormalize(d) ==
    IF IsExc(d) THEN d
    ELSE IF NumLess(d["value"], FNeg(D(27315, 2))) THEN Raise("ValueError")
    ELSE SetItem(
           _round_to_int(
             SetItem(SetItem(SetItem(d, "original_value", d["value"]),
                             "original_unit", d["unit"]),
                     "value", TempConverted(d))),
           "unit", TempUNITS[1])

TempUnitIn(unit) == IF unit = PyStr(<<"C">>) THEN DegC ELSE unit

TemperatureType(value, unit) ==
    IF \A i \in 1..3 : TempUNITS[i] # TempUnitIn(unit) THEN Raise("UnitError")
    ELSE SiWrap("TemperatureType",
                TempNormalize(
                    TempNormalize(DimensionedInit(value, TempUnitIn(unit)))))

\* the properties original_value and original_unit, and value and unit
original_value(self) ==
    IF HasKey(self.d, "original_value") THEN self.d["original_value"]
    ELSE self.d["value"]
original_unit(self) ==
    IF HasKey(self.d, "original_unit") THEN self.d["original_unit"]
    ELSE self.d["unit"]

(***************************************************************************)
(* Enumerated values.  EnumType(member) holds the member's integer value   *)
(* and its name in title case; a code that names no member raises          *)
(* ValueError, as the IntEnum classes do.                                  *)
(***************************************************************************)
EnumMembers(cls) ==
    CASE cls = "State" ->
           {<<1, <<"O", "N", "L", "I", "N", "E">>>>, <<2, <<"O", "F", "F", "L", "I", "N", "E">>>>, <<3, <<"A", "L", "A", "R", "M">>>>}
      [] cls = "InverterOfflineState" ->
           {<<0, <<"N", "O", "R", "M", "A", "L", "_", "O", "F", "F", "L", "I", "N", "E">>>>,
            <<1, <<"A", "B", "N", "O", "R", "M", "A", "L", "_", "O", "F", "F", "L", "I", "N", "E">>>>}
      [] cls = "InverterType" ->
           {<<1, <<"G", "R", "I", "D">>>>, <<2, <<"S", "T", "O", "R", "A", "G", "E">>>>}
      [] cls = "CollectorState" ->
           {<<1, <<"O", "N", "L", "I", "N", "E">>>>, <<2, <<"O", "F", "F", "L", "I", "N", "E">>>>}
      [] cls = "AcOutputType" ->
           {<<0, <<"S", "I", "N", "G", "L", "E", "_", "P", "H", "A", "S", "E">>>>, <<1, <<"T", "H", "R", "E", "E", "_", "P", "H", "A", "S", "E">>>>}
      [] cls = "InverterModel" ->
           {<<1, <<"G", "R", "I", "D", "_", "T", "Y", "P", "E">>>>,
            <<2, <<"G", "R", "I", "D", "_", "A", "N", "D", "_", "L", "O", "A", "D", "_", "S", "I", "D", "E", "_", "M", "E", "T", "E", "R">>>>,
            <<3, <<"G", "R", "I", "D", "_", "C", "O", "N", "N", "E", "C", "T", "E", "D", "_", "A", "N", "D", "_", "G", "R", "I", "D", "_", "S", "I", "D", "E", "_", "E", "L", "E", "C", "T", "R", "I", "C", "I", "T", "Y", "_", "M", "E", "T", "E", "R">>>>,
            <<4, <<"E", "N", "E", "R", "G", "Y", "_", "S", "T", "O", "R", "A", "G", "E", "_", "A", "N", "D", "_", "L", "O", "A", "D", "_", "S", "I", "D", "E", "_", "M", "E", "T", "E", "R">>>>,
            <<5, <<"E", "N", "E", "R", "G", "Y", "_", "S", "T", "O", "R", "A", "G", "E", "_", "A", "N", "D", "_", "G", "R", "I", "D", "_", "S", "I", "D", "E", "_", "M", "E", "T", "E", "R">>>>,
            <<6, <<"R", "E", "S", "E", "R", "V", "E">>>>,
            <<7, <<"O", "F", "F", "_", "G", "R", "I", "D", "_", "E", "N", "E", "R", "G", "Y", "_", "S", "T", "O", "R", "A", "G", "E">>>>,
            <<8, <<"G", "R", "I", "D", "_", "C", "O", "N", "N", "E", "C", "T", "E", "D", "_", "E", "N", "E", "R", "G", "Y", "_", "S", "T", "O", "R", "A", "G", "E", "_", "D", "U", "A", "L", "_", "M", "E", "T", "E", "R">>>>,
            <<1001, <<"A", "C", "_", "C", "O", "U", "P", "L", "E", "_", "W", "I", "T", "H", "O", "U", "T", "_", "C", "T">>>>,
            <<1002, <<"A", "C", "_", "C", "O", "U", "P", "L", "E", "_", "W", "I", "T", "H", "_", "C", "T">>>>}
      [] cls = "PlantType" ->
           {<<0, <<"G", "R", "I", "D">>>>, <<1, <<"E", "N", "E", "R", "G", "Y", "_", "S", "T", "O", "R", "A", "G", "E">>>>, <<2, <<"A", "C", "_", "C", "O", "U", "P", "L", "E">>>>,
            <<3, <<"E", "P", "M">>>>, <<4, <<"B", "U", "I", "L", "T", "_", "I", "N", "_", "M", "E", "T", "E", "R">>>>, <<5, <<"E", "X", "T", "E", "R", "N", "A", "L", "_", "M", "E", "T", "E", "R">>>>,
            <<6, <<"S", "5", "_", "O", "F", "F", "L", "I", "N", "E", "_", "A", "N", "D", "_", "P", "A", "R", "A", "L", "L", "E", "L", "_", "S", "T", "O", "R", "A", "G", "E">>>>,
            <<7, <<"S", "5", "_", "G", "R", "I", "D", "_", "A", "N", "D", "_", "P", "A", "R", "A", "L", "L", "E", "L", "_", "S", "T", "O", "R", "A", "G", "E">>>>,
            <<8, <<"G", "R", "I", "D", "_", "A", "N", "D", "_", "A", "C", "_", "C", "O", "U", "P", "L", "E">>>>, <<9, <<"O", "F", "F", "G", "R", "I", "D", "_", "S", "T", "O", "R", "A", "G", "E">>>>,
            <<10, <<"S", "6", "_", "G", "R", "I", "D", "_", "A", "N", "D", "_", "P", "A", "R", "A", "L", "L", "E", "L", "_", "S", "T", "O", "R", "A", "G", "E">>>>,
            <<11, <<"S", "6", "_", "O", "F", "F", "L", "I", "N", "E", "_", "A", "N", "D", "_", "P", "A", "R", "A", "L", "L", "E", "L", "_", "S", "T", "O", "R", "A", "G", "E">>>>}

\* str.title(): a letter after a letter is lowered, any other letter is raised
\* (the member names are written in capitals)
Title(s) ==
    [i \in 1..Len(s) |->
        IF i > 1 /\ (IsUpper(s[i - 1]) \/ IsLower(s[i - 1])) THEN LowerChar(s[i])
        ELSE s[i]]

\* the number v as a small integer code, or -1 when it is none a member has
\* (a member is found by value, so 1.0 finds the member 1)
SmallCode(v) ==
    IF ~IsNum(v) THEN -1
    ELSE IF v.t = "float" /\ ~FIsWhole(v) THEN -1
    ELSE IF WholeToInt(v).neg \/ Len(WholeToInt(v).mag) > 1 THEN -1
    ELSE BHead(WholeToInt(v).mag)

\* EnumType(cls(v)) for a number v
EnumOfCode(cls, code) ==
    IF \E m \in EnumMembers(cls) : m[1] = code
    THEN [t |-> "enum", value |-> code,
          name |-> Title((CHOOSE m \in EnumMembers(cls) : m[1] = code)[2])]
    ELSE Raise("ValueError")
EnumType(cls, v) == IF IsExc(v) THEN v ELSE EnumOfCode(cls, SmallCode(v))

(***************************************************************************)
(* SolisDataFactory.  A record of the API is a Python dict: a sequence of  *)
(* <<key, value>> pairs in insertion order with distinct keys.  Lists and  *)
(* dicts of the input carry the tags "list" and "dict"; the factory's      *)
(* results carry "ListType" and "DictType".                                *)
(***************************************************************************)
PyDict(items) == [t |-> "dict", items |-> items]
PyList(items) == [t |-> "list", items |-> items]
DictType(items) == [t |-> "DictType", items |-> items]
ListType(items) == [t |-> "ListType", items |-> items]

\* key in d, d[key] and d[key] = v for a sequence of pairs
InKeys(items, key) == \E i \in 1..Len(items) : items[i][1] = key
GetItem(items, key) == items[CHOOSE i \in 1..Len(items) : items[i][1] = key][2]
DictSet(items, key, v) ==
    IF InKeys(items, key)
    THEN [i \in 1..Len(items) |-> IF items[i][1] = key THEN <<key, v>> ELSE items[i]]
    ELSE Append(items, <<key, v>>)

\* the compiled pattern of create: an underscore goes in front of a capital
\* that is not the first character and between a small letter and a digit
UnderscoreBefore(key, i) ==
    i > 1 /\ (IsUpper(key[i]) \/ (IsLower(key[i - 1]) /\ IsDigit(key[i])))
RECURSIVE PatternSub(_, _)
PatternSub(key, i) ==
    IF i > Len(key) THEN <<>>
    ELSE (IF UnderscoreBefore(key, i) THEN <<"_", key[i]>> ELSE <<key[i]>>)
         \o PatternSub(key, i + 1)

\* re.sub(r'in_come', 'income', s), scanning from the left
RECURSIVE SubInCome(_, _)
SubInCome(s, i) ==
    IF i > Len(s) THEN <<>>
    ELSE IF i + 6 <= Len(s) /\ SubSeq(s, i, i + 6) = <<"i", "n", "_", "c", "o", "m", "e">>
    THEN <<"i", "n", "c", "o", "m", "e">> \o SubInCome(s, i + 7)
    ELSE <<s[i]>> \o SubInCome(s, i + 1)

NewKey(key) == SubInCome(Lower(PatternSub(key, 1)), 1)

_key_is_unit(key) ==
    \/ LastN(key, 3) = <<"S", "t", "r">>
    \/ Contains(Lower(key), <<"u", "n", "i", "t">>)
    \/ EndsWith(key, <<"S", "t", "r", "V", "2">>)

\* the match of (?<=(Power|rrent|ltage))(A|B|C|Original)$ in key, or <<>>
PhaseSuffixes == <<<<"A">>, <<"B">>, <<"C">>, <<"O", "r", "i", "g", "i", "n", "a", "l">>>>
PhaseStems == <<<<"P", "o", "w", "e", "r">>, <<"r", "r", "e", "n", "t">>, <<"l", "t", "a", "g", "e">>>>
HasPhaseSuffix(key, j) ==
    \E k \in 1..3 : EndsWith(key, PhaseStems[k] \o PhaseSuffixes[j])
PhaseSuffix(key) ==
    IF \E j \in 1..4 : HasPhaseSuffix(key, j)
    THEN PhaseSuffixes[CHOOSE j \in 1..4 : HasPhaseSuffix(key, j)]
    ELSE <<>>

\* The unit of a key is the value of a sibling key.  k if k is a key of input,
\* and otherwise the sibling found so far (<<>> while none is found)
SiblingOr(input, k, found) == IF InKeys(input, k) THEN k ELSE found

\* the two look-ups of a stem: stem + second overrides stem + first
SiblingOfStem(input, stem, first, second) ==
    SiblingOr(input, stem \o second, SiblingOr(input, stem \o first, <<>>))

\* the if/elif chain of create that finds the sibling holding the unit of key
SiblingOfKey(input, key) ==
    IF InKeys(input, key \o <<"S", "t", "r">>) THEN key \o <<"S", "t", "r">>
    ELSE IF InKeys(input, key \o <<"U", "n", "i", "t">>) THEN key \o <<"U", "n", "i", "t">>
    ELSE IF PhaseSuffix(key) # <<>>
    THEN SiblingOr(input, DropLastN(key, Len(PhaseSuffix(key))) \o <<"S", "t", "r">>, <<>>)
    ELSE IF EndsWith(key, <<"o", "w", "e", "r", "O", "r", "i", "g", "i", "n">>) \/ EndsWith(key, <<"o", "w", "e", "r", "O", "r", "i", "g", "i", "n", "V", "2">>)
    THEN SiblingOr(input, <<"p", "o", "w", "e", "r", "S", "t", "r">>, <<>>)
    ELSE IF EndsWith(key, <<"V", "2">>)
    THEN SiblingOfStem(input, DropLastN(key, 2), <<"S", "t", "r", "V", "2">>, <<"U", "n", "i", "t", "V", "2">>)
    ELSE IF EndsWith(key, <<"O", "r", "i", "g", "i", "n">>)
    THEN SiblingOfStem(input, DropLastN(key, 6), <<"S", "t", "r">>, <<"U", "n", "i", "t">>)
    ELSE IF EndsWith(key, <<"M", "i", "n">>) \/ EndsWith(key, <<"M", "a", "x">>)
    THEN SiblingOfStem(input, DropLastN(key, 3), <<"S", "t", "r">>, <<"U", "n", "i", "t">>)
    ELSE IF key = <<"p", "r", "i", "c", "e">>
    THEN SiblingOr(input, <<"m", "o", "n", "e", "y">>, SiblingOr(input, <<"u", "n", "i", "t">>, <<>>))
    ELSE <<>>

\* unit = input[sibling], and None while no sibling is found
UnitAt(input, sibling) == IF sibling = <<>> THEN PyNone ELSE GetItem(input, sibling)

\* EntityType
PLANT == 1
INVERTER == 2
COLLECTOR == 3

\* i + 1 and i > j of ints
IntSucc(i) ==
    IF i.neg THEN PyIntOf(TRUE, BSub(i.mag, <<1>>)) ELSE PyIntOf(FALSE, BAdd(i.mag, <<1>>))
IntGreater(i, j) ==
    IF i.neg # j.neg THEN j.neg
    ELSE IF i.neg THEN BCmp(i.mag, j.mag) < 0 ELSE BCmp(i.mag, j.mag) > 0

\* a datetime: the POSIX timestamp in seconds, and the offset of its timezone
\* in minutes when it has one (timestamps outside the years 1..9999 are not
\* distinguished)
DateTime(ts, aware, off) == [t |-> "datetime", ts |-> ts, aware |-> aware, off |-> off]

\* datetime.fromtimestamp(int(value) / 1e3 [, tz])
FromMillisOf(i, aware, off) ==
    IF IsExc(i) THEN i ELSE DateTime(NumDiv(i, D(1000, 0)), aware, off)
FromMillis(value, aware, off) == FromMillisOf(ToInt(value), aware, off)

\* re.match('.*UTC([+\-]?)(\d{2}):(\d{2})', s): whether the groups match at
\* the "UTC" that starts at i, and the offset in minutes they give
TwoDigitsAt(s, j) == j + 1 <= Len(s) /\ IsDigit(s[j]) /\ IsDigit(s[j + 1])
ClockAt(s, j) == TwoDigitsAt(s, j) /\ j + 2 <= Len(s) /\ s[j + 2] = ":" /\ TwoDigitsAt(s, j + 3)
SignedAt(s, j) == j <= Len(s) /\ s[j] \in {"+", "-"}
ClockPos(s, i) == IF SignedAt(s, i + 3) THEN i + 4 ELSE i + 3
TzAt(s, i) ==
    /\ i + 2 <= Len(s) /\ SubSeq(s, i, i + 2) = <<"U", "T", "C">>
    /\ ClockAt(s, ClockPos(s, i))
TwoDigitVal(s, j) == 10 * DigitVal(s[j]) + DigitVal(s[j + 1])
ClockMinutes(s, j) == 60 * TwoDigitVal(s, j) + TwoDigitVal(s, j + 3)
TzMinutesAt(s, i) ==
    IF SignedAt(s, i + 3) /\ s[i + 3] = "-"
    THEN 0 - ClockMinutes(s, ClockPos(s, i))
    ELSE ClockMinutes(s, ClockPos(s, i))
TzMatches(s) == \E i \in 1..Len(s) : TzAt(s, i)
\* .* is greedy: the last "UTC" that matches
TzMinutes(s) ==
    TzMinutesAt(s, CHOOSE i \in 1..Len(s) :
                      TzAt(s, i) /\ \A j \in (i + 1)..Len(s) : ~TzAt(s, j))

\* the datetime case of the unit branch: timezone() accepts an offset
\* strictly between -24 and 24 hours
DateTimeWithOffset(value, off) ==
    IF off <= 0 - 1440 \/ off >= 1440 THEN Raise("ValueError")
    ELSE FromMillis(value, TRUE, off)
DateTimeWithUnit(value, unit) ==
    IF TzMatches(unit) THEN DateTimeWithOffset(value, TzMinutes(unit))
    ELSE FromMillis(value, FALSE, 0)

\* the regular expressions of _create_typed_value
IsCurrencyKey(key) == Contains(Lower(key), <<"_", "i", "n", "c", "o", "m", "e">>) \/ Contains(Lower(key), <<"p", "r", "i", "c", "e">>)
IsDateTimeKey(key) ==
    \/ EndsWith(Lower(key), <<"_", "t", "i", "m", "e">>)
    \/ EndsWith(Lower(key), <<"_", "t", "i", "m", "e", "s", "t", "a", "m", "p">>)
    \/ EndsWith(Lower(key), <<"_", "d", "a", "t", "e">>)
IsTemperatureKey(key) ==
    \/ EndsWith(Lower(key), <<"t", "e", "m", "p", "e", "r", "a", "t", "u", "r", "e">>)
    \/ EndsWith(Lower(key), <<"_", "t", "e", "m", "p">>)
    \/ Contains(Lower(key), <<"t", "m", "p", "_">>)
IsApparentPowerKey(key) ==
    EndsWith(Lower(key), <<"l", "o", "o", "k", "e", "d", "_", "p", "o", "w", "e", "r">>) \/ EndsWith(Lower(key), <<"a", "p", "p", "a", "r", "e", "n", "t", "_", "p", "o", "w", "e", "r">>)
IsPercentKey(key) == EndsWith(Lower(key), <<"p", "e", "c">>) \/ EndsWith(Lower(key), <<"p", "e", "r", "c", "e", "n", "t">>)
\* powe{0,1}r{0,1}$
PowerStems == <<<<"p", "o", "w">>, <<"p", "o", "w", "e">>, <<"p", "o", "w", "r">>, <<"p", "o", "w", "e", "r">>>>
EndsWithPower(k) == \E i \in 1..4 : EndsWith(k, PowerStems[i])
IsPowerKey(key) == EndsWithPower(Lower(key))
\* powe{0,1}r{0,1}_?\d{1,2}$
EndsWithPowerBar(k) == EndsWithPower(k) \/ (EndsWith(k, <<"_">>) /\ EndsWithPower(DropLastN(k, 1)))
EndsWithPowerDigits(k, n) ==
    Len(k) > n /\ AllDigits(LastN(k, n)) /\ EndsWithPowerBar(DropLastN(k, n))
IsNumberedPowerKey(key) == \E n \in 1..2 : EndsWithPowerDigits(Lower(key), n)

\* int(value) may raise; the enum, the percentage and the plain int made of it
AcOutputCode(i) == IF IsExc(i) THEN i ELSE IF i.mag = <<>> THEN I(0) ELSE I(1)
Percent(i) ==
    IF IsExc(i) THEN i
    ELSE GenericType(PyIntOf(i.neg, BMulSmall(i.mag, 100)), PyStr(<<"%">>))

\* _create_typed_value with a unit
TypedWithUnitLower(key, value, unit, lower) ==
    IF lower \in UNITS("ReactivePowerType") THEN SiType("ReactivePowerType", value, lower)
    ELSE IF unit \in UNITS("ApparentPowerType") THEN SiType("ApparentPowerType", value, unit)
    ELSE IF unit \in UNITS("FrequencyType") THEN SiType("FrequencyType", value, unit)
    ELSE IF \E i \in 1..3 : TempUNITS[i] = unit THEN TemperatureType(value, unit)
    ELSE IF IsCurrencyKey(key) THEN CurrencyType(value, unit)
    ELSE IF IsDateTimeKey(key) THEN DateTimeWithUnit(value, unit.s)
    ELSE GenericType(value, unit)
TypedWithUnit(key, value, unit) ==
    IF unit.t # "str" THEN Raise("AttributeError")
    ELSE IF unit \in UNITS("EnergyType") THEN SiType("EnergyType", value, unit)
    ELSE IF unit \in UNITS("VoltageType") THEN SiType("VoltageType", value, unit)
    ELSE IF unit \in UNITS("CurrentType") THEN SiType("CurrentType", value, unit)
    ELSE IF unit \in UNITS("PowerType") THEN SiType("PowerType", value, unit)
    ELSE TypedWithUnitLower(key, value, unit, PyStr(Lower(unit.s)))

\* _create_typed_value without a unit: the cases of match(key) in their order
TypeOfEntity(type, value) ==
    IF type = PLANT THEN EnumType("PlantType", ToInt(value))
    ELSE IF type = INVERTER THEN EnumType("InverterType", ToInt(value))
    ELSE ToInt(value)
\* the cases of literal keys, which come first
LiteralKeys ==
    {<<"s", "t", "a", "t", "e">>, <<"c", "u", "r", "r", "e", "n", "t", "_", "s", "t", "a", "t", "e">>, <<"s", "t", "a", "t", "e", "_", "e", "x", "c", "e", "p", "t", "i", "o", "n", "_", "f", "l", "a", "g">>, <<"a", "c", "_", "o", "u", "t", "p", "u", "t", "_", "t", "y", "p", "e">>,
     <<"i", "n", "v", "e", "r", "t", "e", "r", "_", "m", "e", "t", "e", "r", "_", "m", "o", "d", "e", "l">>, <<"s", "t", "a", "t", "i", "o", "n", "_", "t", "y", "p", "e">>, <<"t", "y", "p", "e">>}
TypedLiteral(type, key, value) ==
    IF key \in {<<"s", "t", "a", "t", "e">>, <<"c", "u", "r", "r", "e", "n", "t", "_", "s", "t", "a", "t", "e">>} THEN EnumType("State", ToInt(value))
    ELSE IF key = <<"s", "t", "a", "t", "e", "_", "e", "x", "c", "e", "p", "t", "i", "o", "n", "_", "f", "l", "a", "g">> THEN EnumType("InverterOfflineState", value)
    ELSE IF key = <<"a", "c", "_", "o", "u", "t", "p", "u", "t", "_", "t", "y", "p", "e">> THEN EnumType("AcOutputType", AcOutputCode(ToInt(value)))
    ELSE IF key = <<"i", "n", "v", "e", "r", "t", "e", "r", "_", "m", "e", "t", "e", "r", "_", "m", "o", "d", "e", "l">> THEN EnumType("InverterModel", ToInt(value))
    ELSE IF key = <<"s", "t", "a", "t", "i", "o", "n", "_", "t", "y", "p", "e">> THEN EnumType("PlantType", ToInt(value))
    ELSE TypeOfEntity(type, value)
\* the cases with a guard, which follow
TypedGuarded(key, value) ==
    IF IsPercentKey(key) THEN Percent(ToInt(value))
    ELSE IF Contains(Lower(key), <<"v", "o", "l", "t", "a", "g", "e">>) THEN SiType("VoltageType", value, DEFAULT("VoltageType"))
    ELSE IF Contains(Lower(key), <<"u", "p", "v">>) THEN SiType("VoltageType", value, DEFAULT("VoltageType"))
    ELSE IF key \in {<<"u", "_", "a">>, <<"u", "_", "b">>, <<"u", "_", "c">>} THEN SiType("VoltageType", value, DEFAULT("VoltageType"))
    ELSE IF Contains(Lower(key), <<"c", "u", "r", "r", "e", "n", "t">>) THEN SiType("CurrentType", value, DEFAULT("CurrentType"))
    ELSE IF Contains(Lower(key), <<"i", "p", "v">>) THEN SiType("CurrentType", value, DEFAULT("CurrentType"))
    ELSE IF key \in {<<"i", "_", "a">>, <<"i", "_", "b">>, <<"i", "_", "c">>} THEN SiType("CurrentType", value, DEFAULT("CurrentType"))
    ELSE IF key \in {<<"p", "_", "a">>, <<"p", "_", "b">>, <<"p", "_", "c">>} THEN SiType("PowerType", value, DEFAULT("PowerType"))
    ELSE IF IsApparentPowerKey(key)
    THEN SiType("ApparentPowerType", value, DEFAULT("ApparentPowerType"))
    ELSE IF Contains(Lower(key), <<"r", "e", "a", "c", "t", "i", "v", "e", "_", "p", "o", "w", "e", "r">>)
    THEN SiType("ReactivePowerType", value, DEFAULT("ReactivePowerType"))
    ELSE IF IsNumberedPowerKey(key) THEN SiType("PowerType", value, DEFAULT("PowerType"))
    ELSE IF IsPowerKey(key) THEN SiType("PowerType", value, DEFAULT("PowerType"))
    ELSE IF EndsWith(Lower(key), <<"e", "n", "e", "r", "g", "y">>) THEN SiType("EnergyType", value, DEFAULT("EnergyType"))
    ELSE IF Contains(key, <<"_", "t", "i", "m", "e">>) THEN FromMillis(value, FALSE, 0)
    ELSE IF Contains(key, <<"_", "d", "a", "t", "e">>) THEN FromMillis(value, FALSE, 0)
    ELSE IF IsTemperatureKey(key) THEN TemperatureType(value, DegC)
    ELSE value

\* the chain with a guarded case tried before the literal keys
TypedNoUnitGuardFirst(type, key, value) ==
    IF Contains(Lower(key), <<"c", "u", "r", "r", "e", "n", "t">>)
    THEN SiType("CurrentType", value, DEFAULT("CurrentType"))
    ELSE IF key \in LiteralKeys THEN TypedLiteral(type, key, value)
    ELSE TypedGuarded(key, value)

TypedNoUnit(type, key, value) ==
    IF key \in LiteralKeys THEN TypedLiteral(type, key, value)
    ELSE TypedGuarded(key, value)

_create_typed_value(type, key, value, unit) ==
    IF unit # PyNone THEN TypedWithUnit(key, value, unit)
    ELSE TypedNoUnit(type, key, value)

\* nr_of_strings = input['dcInputtype'] + 1, and 0 without that key
PlusOne(v) ==
    IF v.t = "int" THEN IntSucc(v)
    ELSE IF v.t = "float" THEN FAdd(v, IntToFloat(I(1)))
    ELSE Raise("TypeError")
NrOfStrings(input) ==
    IF InKeys(input, <<"d", "c", "I", "n", "p", "u", "t", "t", "y", "p", "e">>) THEN PlusOne(GetItem(input, <<"d", "c", "I", "n", "p", "u", "t", "t", "y", "p", "e">>)) ELSE I(0)

\* 'money' taken as the unit of an income key only while no unit is found
IncomeSiblingUnlessFound(input, new_key, found) ==
    IF Contains(new_key, <<"i", "n", "c", "o", "m", "e">>) /\ found = <<>>
    THEN SiblingOr(input, <<"m", "o", "n", "e", "y">>, found)
    ELSE found

\* the sibling create takes the unit from: the chain, then 'money' for an
\* income key, then 'tmpUnit' for a temperature key whose unit is still None
IncomeSibling(input, new_key, found) ==
    IF Contains(new_key, <<"i", "n", "c", "o", "m", "e">>) THEN SiblingOr(input, <<"m", "o", "n", "e", "y">>, found) ELSE found
TempSibling(input, new_key, found) ==
    IF /\ LastN(new_key, 4) = <<"t", "e", "m", "p">> \/ LastN(new_key, 11) = <<"t", "e", "m", "p", "e", "r", "a", "t", "u", "r", "e">>
       /\ UnitAt(input, found) = PyNone
    THEN SiblingOr(input, <<"t", "m", "p", "U", "n", "i", "t">>, found)
    ELSE found
ResolveSibling(input, key, new_key) ==
    TempSibling(input, new_key, IncomeSibling(input, new_key, SiblingOfKey(input, key)))
ResolveUnit(input, key, new_key) == UnitAt(input, ResolveSibling(input, key, new_key))

\* re.split(r'/s', value)[0]: the text in front of the first "/s"
SlashSAt(s, i) == i < Len(s) /\ s[i] = "/" /\ s[i + 1] = "s"
BeforeSlashS(s) ==
    IF \E i \in 1..Len(s) : SlashSAt(s, i)
    THEN SubSeq(s, 1, (CHOOSE i \in 1..Len(s) :
                          SlashSAt(s, i) /\ \A j \in 1..(i - 1) : ~SlashSAt(s, j)) - 1)
    ELSE s
\* the value create passes on: a timestamp is cut, and must be a string
TimestampValue(new_key, value) ==
    IF LastN(new_key, 9) = <<"t", "i", "m", "e", "s", "t", "a", "m", "p">>
    THEN (IF value.t = "str" THEN PyStr(BeforeSlashS(value.s)) ELSE Raise("TypeError"))
    ELSE value

\* re.findall(r'\d+', new_key)[-1]: the last run of digits, or <<>>
LastDigitAt(s) ==
    IF \E i \in 1..Len(s) : IsDigit(s[i])
    THEN CHOOSE i \in 1..Len(s) : IsDigit(s[i]) /\ \A j \in (i + 1)..Len(s) : ~IsDigit(s[j])
    ELSE 0
RunStart(s, e) ==
    CHOOSE b \in 1..e : (\A j \in b..e : IsDigit(s[j])) /\ (b = 1 \/ ~IsDigit(s[b - 1]))
LastDigitRun(s) ==
    IF LastDigitAt(s) = 0 THEN <<>> ELSE SubSeq(s, RunStart(s, LastDigitAt(s)), LastDigitAt(s))

\* int(r[-1]) > nr_of_strings
ExceedsStrings(i, nr) ==
    IF nr.t = "int" THEN IntGreater(i, nr) ELSE NumLess(nr, i)
\* only create properties for available strings
Dropped(new_key, nr) ==
    /\ FirstN(new_key, 4) \in {<<"i", "_", "p", "v">>, <<"u", "_", "p", "v">>, <<"p", "o", "w", "_">>, <<"m", "p", "p", "t">>}
    /\ LastDigitRun(new_key) # <<>>
    /\ ExceedsStrings(PyIntOf(FALSE, DigitsToBig(LastDigitRun(new_key), 1, <<>>)), nr)

\* the end of one pass of the loop: data[new_key] = d unless d is dropped or None
Emit(data, new_key, d, nr) ==
    IF IsExc(d) THEN d
    ELSE IF Dropped(new_key, nr) \/ d = PyNone THEN data
    ELSE DictType(DictSet(data.items, new_key, d))

RECURSIVE create(_, _), _create_value(_, _, _, _), CreateLoop(_, _, _, _, _), CreateList(_, _, _, _, _)

\* ListType([_create_value(type, key, x) for x in value])
CreateListNext(type, key, value, i, out, p) ==
    IF IsExc(p) THEN p ELSE CreateList(type, key, value, i + 1, Append(out, p))
CreateList(type, key, value, i, out) ==
    IF i > Len(value) THEN ListType(out)
    ELSE CreateListNext(type, key, value, i, out, _create_value(type, key, value[i], PyNone))

_create_value(type, key, value, unit) ==
    IF IsExc(value) THEN value
    ELSE IF value.t = "dict" THEN create(type, value.items)
    ELSE IF value.t = "list" THEN CreateList(type, key, value.items, 1, <<>>)
    ELSE _create_typed_value(type, key, value, unit)

\* one pass of the loop of create over the key input[i][1]
CreateField(type, input, key, new_key, data, nr) ==
    Emit(data, new_key,
         _create_value(type, new_key, TimestampValue(new_key, GetItem(input, key)),
                       ResolveUnit(input, key, new_key)),
         nr)
CreateKey(type, input, key, data, nr) ==
    IF _key_is_unit(key) THEN data
    ELSE Bind(NewKey(key), LAMBDA new_key : CreateField(type, input, key, new_key, data, nr))
CreateLoop(type, input, i, data, nr) ==
    IF IsExc(data) THEN data
    ELSE IF i > Len(input) THEN data
    ELSE Bind(CreateKey(type, input, input[i][1], data, nr),
              LAMBDA next : CreateLoop(type, input, i + 1, next, nr))

\* SolisDataFactory.create(type, input), for the items of the dict input
CreateWith(type, input, nr) ==
    IF IsExc(nr) THEN nr ELSE CreateLoop(type, input, 1, DictType(<<>>), nr)
create(type, input) ==
    Bind(NrOfStrings(input), LAMBDA nr_of_strings : CreateWith(type, input, nr_of_strings))

(***************************************************************************)
(* The state machine.  A behaviour is one use of the library: the inputs   *)
(* of the call are drawn in the initial state (given), and the actions     *)
(* apply the code to them.  self is the Dimensioned Value a constructor    *)
(* built, ret the value a call returned or the exception it raised, and    *)
(* frame the local variables of create while its loop runs: the index of   *)
(* the next key, nr_of_strings, data, the key and new_key of the last      *)
(* pass, and its unit as the if/elif chain left it (chain) and as it was   *)
(* handed to _create_value (unit).                                         *)
(***************************************************************************)
VARIABLES pc, given, self, ret, frame
vars == <<pc, given, self, ret, frame>>

\* the numbers and texts handed to the constructors
MaxValue == 4
Values ==
    [n \in 1..(MaxValue + 2) |-> I(n - 2)]
    \o [n \in 1..MaxValue |-> D(n, 1)]
    \o <<PyStr(<<"3">>), PyStr(<<"2", ".", "5">>), PyStr(<<"a", "b", "c">>), PyNone>>
\* temperatures in steps of a hundred degrees, and around absolute zero
MaxTemp == 5
TempValues ==
    [n \in 1..(2 * MaxTemp + 1) |-> I(100 * (n - MaxTemp - 1))]
    \o <<FNeg(KELVIN), I(0 - 274), I(0 - 273)>>

BadUnit == PyStr(<<"X">>)
DimClasses == SiClasses \cup {"TemperatureType", "GenericType", "CurrencyType"}
DimValues(cls) == IF cls = "TemperatureType" THEN TempValues ELSE Values
DimUnits(cls) ==
    IF cls \in SiClasses
    THEN [i \in 1..7 |-> PyStr(PREFIXES[i] \o BASE_UNIT(cls))] \o <<BadUnit, PyNone>>
    ELSE IF cls = "TemperatureType" THEN TempUNITS \o <<PyStr(<<"C">>), BadUnit>>
    ELSE <<PyStr(<<"E", "U", "R">>), PyNone>>

InitDim ==
    /\ pc = "new"
    /\ \E cls \in DimClasses :
         \E i \in 1..Len(DimValues(cls)), j \in 1..Len(DimUnits(cls)) :
            given = [op |-> "new", cls |-> cls,
                     value |-> DimValues(cls)[i], unit |-> DimUnits(cls)[j]]
    /\ self = PyNone
    /\ ret = PyNone
    /\ frame = PyNone

\* EnergyType(value, unit), ..., FrequencyType(value, unit)
NewSiType ==
    /\ pc = "new"
    /\ given.cls \in SiClasses
    /\ self' = SiType(given.cls, given.value, given.unit)
    /\ pc' = "constructed"
    /\ UNCHANGED <<given, ret, frame>>

NewTemperatureType ==
    /\ pc = "new"
    /\ given.cls = "TemperatureType"
    /\ self' = TemperatureType(given.value, given.unit)
    /\ pc' = "constructed"
    /\ UNCHANGED <<given, ret, frame>>

NewGenericType ==
    /\ pc = "new"
    /\ given.cls = "GenericType"
    /\ self' = GenericType(given.value, given.unit)
    /\ pc' = "constructed"
    /\ UNCHANGED <<given, ret, frame>>

NewCurrencyType ==
    /\ pc = "new"
    /\ given.cls = "CurrencyType"
    /\ self' = CurrencyType(given.value, given.unit)
    /\ pc' = "constructed"
    /\ UNCHANGED <<given, ret, frame>>

\* self.to_unit(unit) on a value of an SI family; the call leaves self as it
\* is, so one call on each value shows every call
ToUnit ==
    /\ pc = "constructed"
    /\ self.t = "dim"
    /\ self.cls \in SiClasses
    /\ \E unit \in UNITS(self.cls) \cup {BadUnit} :
          ret' = [unit |-> unit, value |-> to_unit(self, unit)]
    /\ pc' = "converted"
    /\ UNCHANGED <<given, self, frame>>

NextDim ==
    \/ NewSiType
    \/ NewTemperatureType
    \/ NewGenericType
    \/ NewCurrencyType
    \/ ToUnit

SpecDim == InitDim /\ [][NextDim]_vars

\* the arguments handed to _create_typed_value: enumeration codes from 0 to
\* MaxCode, a fraction, numerals, text and None
MaxCode == 3
TypedValues ==
    [n \in 1..(MaxCode + 1) |-> I(n - 1)]
    \o <<D(25, 1), PyStr(<<"2">>), PyStr(<<"1", "6", "8", "7", "9", "2", "4", "8", "0", "0", "0", "0", "0">>), PyStr(<<"x">>), PyNone>>
\* canonical keys of every case of match(key), and keys of none
TypedKeys ==
    <<<<"s", "t", "a", "t", "e">>, <<"c", "u", "r", "r", "e", "n", "t", "_", "s", "t", "a", "t", "e">>, <<"s", "t", "a", "t", "e", "_", "e", "x", "c", "e", "p", "t", "i", "o", "n", "_", "f", "l", "a", "g">>, <<"a", "c", "_", "o", "u", "t", "p", "u", "t", "_", "t", "y", "p", "e">>,
      <<"i", "n", "v", "e", "r", "t", "e", "r", "_", "m", "e", "t", "e", "r", "_", "m", "o", "d", "e", "l">>, <<"s", "t", "a", "t", "i", "o", "n", "_", "t", "y", "p", "e">>, <<"t", "y", "p", "e">>, <<"p", "o", "w", "e", "r", "_", "p", "e", "c">>,
      <<"b", "a", "t", "t", "e", "r", "y", "_", "p", "e", "r", "c", "e", "n", "t">>, <<"d", "c", "_", "v", "o", "l", "t", "a", "g", "e">>, <<"u", "p", "v">>, <<"u", "_", "p", "v", "_", "1">>, <<"u", "_", "a">>, <<"u", "_", "b">>, <<"u", "_", "c">>,
      <<"s", "t", "o", "r", "a", "g", "e", "_", "b", "a", "t", "t", "e", "r", "y", "_", "c", "u", "r", "r", "e", "n", "t">>, <<"i", "p", "v">>, <<"i", "_", "p", "v", "_", "2">>, <<"i", "_", "a">>, <<"i", "_", "b">>, <<"i", "_", "c">>,
      <<"p", "_", "a">>, <<"p", "_", "b">>, <<"p", "_", "c">>, <<"b", "a", "c", "k", "u", "p", "_", "l", "o", "o", "k", "e", "d", "_", "p", "o", "w", "e", "r">>, <<"a", "p", "p", "a", "r", "e", "n", "t", "_", "p", "o", "w", "e", "r">>,
      <<"r", "e", "a", "c", "t", "i", "v", "e", "_", "p", "o", "w", "e", "r">>, <<"p", "o", "w", "_", "1">>, <<"p", "o", "w", "1", "2">>, <<"p", "o", "w", "e", "r", "_", "3">>, <<"p", "o", "w", "r", "7">>, <<"p", "o", "w", "_", "1", "2", "3">>,
      <<"f", "a", "m", "i", "l", "y", "_", "l", "o", "a", "d", "_", "p", "o", "w", "e", "r">>, <<"p", "o", "w">>, <<"p", "o", "w", "e">>, <<"d", "a", "y", "_", "e", "n", "e", "r", "g", "y">>, <<"u", "p", "d", "a", "t", "e", "_", "t", "i", "m", "e">>,
      <<"c", "r", "e", "a", "t", "e", "_", "d", "a", "t", "e">>, <<"x", "_", "t", "i", "m", "e", "_", "y">>, <<"i", "n", "v", "e", "r", "t", "e", "r", "_", "t", "e", "m", "p", "e", "r", "a", "t", "u", "r", "e">>, <<"x", "_", "t", "e", "m", "p">>, <<"t", "m", "p", "_", "x">>,
      <<"v", "o", "l", "t", "a", "g", "e", "_", "c", "u", "r", "r", "e", "n", "t">>, <<"p", "e", "r", "c", "e", "n", "t", "_", "p", "o", "w", "e", "r">>, <<"e", "n", "e", "r", "g", "y", "_", "t", "i", "m", "e">>, <<"s", "t", "a", "t", "e", "_", "x">>, <<"f", "o", "o">>,
      <<"n", "a", "m", "e">>, <<"u", "_", "d">>>>
\* the keys the unit branch tells apart: currency, date and time, and others
UnitKeys == <<<<"f", "o", "o">>, <<"d", "a", "y", "_", "i", "n", "c", "o", "m", "e">>, <<"u", "p", "d", "a", "t", "e", "_", "t", "i", "m", "e">>>>
\* every unit of every family, and units of other spellings and kinds
FamilyUnits(cls) == [i \in 1..7 |-> PyStr(PREFIXES[i] \o BASE_UNIT(cls))]
TypedUnits ==
    FamilyUnits("EnergyType") \o FamilyUnits("VoltageType")
    \o FamilyUnits("CurrentType") \o FamilyUnits("PowerType")
    \o FamilyUnits("ReactivePowerType") \o FamilyUnits("ApparentPowerType")
    \o FamilyUnits("FrequencyType") \o TempUNITS
    \o <<PyStr(<<"C">>), PyStr(<<"V", "A", "R">>), PyStr(<<"k", "V", "a", "r">>), PyStr(<<"K", "V", "A", "R">>), PyStr(<<"E", "U", "R">>),
         PyStr(<<"%">>), PyStr(<<"U", "T", "C", "+", "0", "8", ":", "0", "0">>), PyStr(<<"(", "U", "T", "C", "-", "0", "5", ":", "3", "0", ")">>), PyStr(<<"U", "T", "C", "+", "2", "4", ":", "0", "0">>),
         PyStr(<<>>), I(5)>>

TypedCall(type, key, value, unit) ==
    [op |-> "_create_typed_value", type |-> type, key |-> key, value |-> value, unit |-> unit]

InitTyped ==
    /\ pc = "call"
    /\ \E type \in {PLANT, INVERTER, COLLECTOR}, v \in 1..Len(TypedValues) :
          \/ \E k \in 1..Len(TypedKeys) :
                given = TypedCall(type, TypedKeys[k], TypedValues[v], PyNone)
          \/ \E k \in 1..Len(UnitKeys), u \in 1..Len(TypedUnits) :
                given = TypedCall(type, UnitKeys[k], TypedValues[v], TypedUnits[u])
    /\ self = PyNone
    /\ ret = PyNone
    /\ frame = PyNone

\* SolisDataFactory._create_typed_value(type, key, value, unit)
CreateTypedValue ==
    /\ pc = "call"
    /\ given.op = "_create_typed_value"
    /\ ret' = _create_typed_value(given.type, given.key, given.value, given.unit)
    /\ pc' = "returned"
    /\ UNCHANGED <<given, self, frame>>

NextTyped == CreateTypedValue

SpecTyped == InitTyped /\ [][NextTyped]_vars

\* the raw records handed to create: at most MaxFields fields of one pool of
\* fields, in the order of the pool or in the opposite order
MaxFields == 3
FieldPools ==
    << \* the keys of the V2 and Origin rules
       << <<<<"a", "c", "O", "u", "t", "p", "u", "t", "P", "o", "w", "e", "r", "O", "r", "i", "g", "i", "n", "V", "2">>, I(3)>>, <<<<"a", "c", "O", "u", "t", "p", "u", "t", "P", "o", "w", "e", "r", "S", "t", "r", "V", "2">>, PyStr(<<"k", "W">>)>>,
          <<<<"a", "c", "O", "u", "t", "p", "u", "t", "P", "o", "w", "e", "r", "U", "n", "i", "t", "V", "2">>, PyStr(<<"M", "W">>)>>, <<<<"p", "o", "w", "e", "r", "S", "t", "r">>, PyStr(<<"W">>)>>,
          <<<<"x", "P", "o", "w", "e", "r", "O", "r", "i", "g", "i", "n">>, I(3)>>, <<<<"x", "P", "o", "w", "e", "r", "S", "t", "r">>, PyStr(<<"k", "W">>)>>,
          <<<<"f", "o", "o", "O", "r", "i", "g", "i", "n">>, I(3)>>, <<<<"f", "o", "o", "S", "t", "r">>, PyStr(<<"k", "W">>)>>,
          <<<<"f", "o", "o", "U", "n", "i", "t">>, PyStr(<<"V">>)>> >>,
       \* the keys of the Str, Unit, Min, Max and phase rules
       << <<<<"f", "o", "o">>, I(3)>>, <<<<"f", "o", "o">>, PyNone>>, <<<<"f", "o", "o", "S", "t", "r">>, PyStr(<<"k", "W">>)>>,
          <<<<"f", "o", "o", "U", "n", "i", "t">>, PyStr(<<"V">>)>>, <<<<"f", "o", "o", "M", "i", "n">>, I(3)>>, <<<<"f", "o", "o", "M", "a", "x">>, D(25, 1)>>,
          <<<<"b", "a", "c", "k", "u", "p", "L", "o", "o", "k", "e", "d", "P", "o", "w", "e", "r", "O", "r", "i", "g", "i", "n", "a", "l">>, I(3)>>, <<<<"b", "a", "c", "k", "u", "p", "L", "o", "o", "k", "e", "d", "P", "o", "w", "e", "r", "A">>, I(3)>>,
          <<<<"b", "a", "c", "k", "u", "p", "L", "o", "o", "k", "e", "d", "P", "o", "w", "e", "r", "S", "t", "r">>, PyStr(<<"k", "V", "A">>)>> >>,
       \* price, income and temperature
       << <<<<"p", "r", "i", "c", "e">>, I(2)>>, <<<<"m", "o", "n", "e", "y">>, PyStr(<<"E", "U", "R">>)>>, <<<<"u", "n", "i", "t">>, PyStr(<<"U", "S", "D">>)>>,
          <<<<"d", "a", "y", "I", "n", "C", "o", "m", "e">>, I(5)>>, <<<<"d", "a", "y", "I", "n", "C", "o", "m", "e", "U", "n", "i", "t">>, PyStr(<<"U", "S", "D">>)>>,
          <<<<"i", "n", "v", "e", "r", "t", "e", "r", "T", "e", "m", "p", "e", "r", "a", "t", "u", "r", "e">>, I(20)>>, <<<<"i", "n", "v", "e", "r", "t", "e", "r", "T", "e", "m", "p", "e", "r", "a", "t", "u", "r", "e", "U", "n", "i", "t">>, PyNone>>,
          <<<<"t", "m", "p", "U", "n", "i", "t">>, PyStr(<<"F">>)>>, <<<<"d", "a", "y", "_", "i", "n", "_", "c", "o", "m", "e">>, I(1)>>,
          <<<<"i", "n", "v", "e", "r", "t", "e", "r", "T", "e", "m", "p", "e", "r", "a", "t", "u", "r", "e", "S", "t", "r">>, PyStr(<<"K">>)>> >>,
       \* the readings of strings, and keys and values of other kinds
       << <<<<"d", "c", "I", "n", "p", "u", "t", "t", "y", "p", "e">>, I(1)>>, <<<<"d", "c", "I", "n", "p", "u", "t", "t", "y", "p", "e">>, PyStr(<<"1">>)>>, <<<<"p", "o", "w", "1">>, I(1)>>,
          <<<<"p", "o", "w", "3">>, I(3)>>, <<<<"p", "o", "w", "3", "S", "t", "r">>, PyStr(<<"W">>)>>,
          <<<<"c", "o", "m", "m", "u", "n", "i", "t", "y", "N", "a", "m", "e">>, PyStr(<<"x">>)>>, <<<<"t", "i", "m", "e", "Z", "o", "n", "e", "S", "t", "r">>, PyStr(<<"U", "T", "C", "+", "0", "8", ":", "0", "0">>)>>,
          <<<<"d", "a", "t", "a", "T", "i", "m", "e", "s", "t", "a", "m", "p">>, PyStr(<<"1", "6", "8", "7", "9", "2", "4", "8", "0", "0", "0", "0", "0">>)>>,
          <<<<"i", "n", "v", "e", "r", "t", "e", "r", "s">>, PyList(<<I(1), PyDict(<< <<<<"s", "t", "a", "t", "e">>, I(1)>> >>)>>)>> >>,
       \* the readings of strings next to the number of strings
       << <<<<"d", "c", "I", "n", "p", "u", "t", "t", "y", "p", "e">>, I(1)>>, <<<<"p", "o", "w", "1">>, I(400)>>, <<<<"p", "o", "w", "2">>, I(410)>>, <<<<"p", "o", "w", "3">>, I(420)>>,
          <<<<"p", "o", "w", "4">>, I(430)>>, <<<<"m", "p", "p", "t", "1">>, PyNone>>, <<<<"i", "P", "v", "1">>, D(25, 1)>>, <<<<"u", "P", "v", "3">>, I(600)>>,
          <<<<"p", "o", "w", "e", "r", "3">>, I(5)>> >>,
       \* times in milliseconds, as text and as numbers, and their timezones
       << <<<<"d", "a", "t", "a", "T", "i", "m", "e", "s", "t", "a", "m", "p">>, PyStr(<<"1", "6", "8", "7", "9", "2", "4", "8", "0", "0", "0", "0", "0">>)>>, <<<<"d", "a", "t", "a", "T", "i", "m", "e", "s", "t", "a", "m", "p">>, I(86400000)>>,
          <<<<"d", "a", "t", "a", "T", "i", "m", "e", "s", "t", "a", "m", "p", "S", "t", "r">>, PyStr(<<"U", "T", "C", "+", "0", "8", ":", "0", "0">>)>>, <<<<"u", "p", "d", "a", "t", "e", "T", "i", "m", "e">>, I(86400000)>>,
          <<<<"u", "p", "d", "a", "t", "e", "T", "i", "m", "e", "S", "t", "r">>, PyStr(<<"(", "U", "T", "C", "-", "0", "5", ":", "3", "0", ")">>)>>, <<<<"c", "r", "e", "a", "t", "e", "D", "a", "t", "e">>, PyStr(<<"8", "6", "4", "0", "0", "0", "0", "0">>)>>,
          <<<<"c", "r", "e", "a", "t", "e", "D", "a", "t", "e", "S", "t", "r">>, PyStr(<<"2", "0", "2", "3", "-", "0", "6", "-", "2", "8">>)>> >>,
       \* raw keys of one canonical key, an object and an array
       << <<<<"f", "o", "o", "B", "a", "r">>, PyNone>>,
          <<<<"n", "e", "s", "t", "e", "d">>, PyDict(<< <<<<"f", "o", "o", "B", "a", "r">>, I(1)>>, <<<<"f", "o", "o", "_", "b", "a", "r">>, I(2)>> >>)>>,
          <<<<"f", "o", "o", "B", "a", "r">>, I(1)>>, <<<<"f", "o", "o", "_", "b", "a", "r">>, I(2)>>, <<<<"f", "o", "o", "_", "b", "a", "r">>, PyNone>>,
          <<<<"l", "i", "s", "t">>, PyList(<<PyDict(<< <<<<"f", "o", "o", "B", "a", "r">>, I(1)>> >>), I(3), PyList(<<I(4)>>)>>)>> >> >>
\* whole records of more fields: the readings of four strings of which two
\* are declared
Scenarios ==
    << << <<<<"d", "c", "I", "n", "p", "u", "t", "t", "y", "p", "e">>, I(1)>>, <<<<"p", "o", "w", "1">>, I(400)>>, <<<<"p", "o", "w", "2">>, I(410)>>, <<<<"p", "o", "w", "3">>, I(420)>>,
          <<<<"p", "o", "w", "4">>, I(430)>> >> >>

\* the increasing choices of n fields of a pool of size
Choices(n, size) ==
    {s \in [1..n -> 1..size] : \A a \in 1..(n - 1) : s[a] < s[a + 1]}
RecordOf(pool, s, rev) ==
    [a \in 1..Len(s) |-> pool[s[IF rev THEN Len(s) + 1 - a ELSE a]]]
\* the keys of a dict are distinct
DistinctKeys(items) ==
    \A a, b \in 1..Len(items) : a # b => items[a][1] # items[b][1]

InitCreate ==
    /\ pc = "call"
    /\ \E type \in {PLANT, INVERTER, COLLECTOR} :
          \/ \E p \in 1..Len(FieldPools), n \in 0..MaxFields, rev \in BOOLEAN :
                \E s \in Choices(n, Len(FieldPools[p])) :
                   /\ DistinctKeys(RecordOf(FieldPools[p], s, rev))
                   /\ given = [op |-> "create", type |-> type,
                               input |-> RecordOf(FieldPools[p], s, rev)]
          \/ \E c \in 1..Len(Scenarios) :
                given = [op |-> "create", type |-> type, input |-> Scenarios[c]]
    /\ self = PyNone
    /\ ret = PyNone
    /\ frame = PyNone

\* the locals of create when the loop is about to read input[i]
Frame(i, nr, data, key, new_key, chain, unit) ==
    [i |-> i, nr |-> nr, data |-> data, key |-> key, new_key |-> new_key,
     chain |-> chain, unit |-> unit]

\* create, up to the loop: data is empty and nr_of_strings is read
EnterLoop(nr) ==
    IF IsExc(nr)
    THEN pc' = "returned" /\ ret' = nr /\ frame' = frame
    ELSE /\ pc' = "loop"
         /\ frame' = Frame(1, nr, DictType(<<>>), <<>>, <<>>, PyNone, PyNone)
         /\ ret' = ret
EnterCreate ==
    /\ pc = "call"
    /\ given.op = "create"
    /\ EnterLoop(NrOfStrings(given.input))
    /\ UNCHANGED <<given, self>>

\* one pass of the loop over a key that is a unit: nothing is added
SkipUnitKey ==
    /\ pc = "loop"
    /\ frame.i <= Len(given.input)
    /\ _key_is_unit(given.input[frame.i][1])
    /\ frame' = Frame(frame.i + 1, frame.nr, frame.data, given.input[frame.i][1],
                      NewKey(given.input[frame.i][1]), frame.chain, frame.unit)
    /\ UNCHANGED <<pc, given, self, ret>>

\* one pass of the loop over any other key: the unit is found, the value is
\* made and added, unless it is dropped or None; an exception ends create
AfterKey(key, new_key, chain, unit, data) ==
    IF IsExc(data)
    THEN /\ pc' = "returned"
         /\ ret' = data
         /\ frame' = Frame(frame.i, frame.nr, frame.data, key, new_key, chain, unit)
    ELSE /\ pc' = pc
         /\ ret' = ret
         /\ frame' = Frame(frame.i + 1, frame.nr, data, key, new_key, chain, unit)
ConvertWith(key, new_key) ==
    AfterKey(key, new_key, UnitAt(given.input, SiblingOfKey(given.input, key)),
             ResolveUnit(given.input, key, new_key),
             CreateField(given.type, given.input, key, new_key, frame.data, frame.nr))
ConvertKey ==
    /\ pc = "loop"
    /\ frame.i <= Len(given.input)
    /\ ~_key_is_unit(given.input[frame.i][1])
    /\ ConvertWith(given.input[frame.i][1], NewKey(given.input[frame.i][1]))
    /\ UNCHANGED <<given, self>>

\* return data
ReturnCreate ==
    /\ pc = "loop"
    /\ frame.i > Len(given.input)
    /\ ret' = frame.data
    /\ pc' = "returned"
    /\ UNCHANGED <<given, self, frame>>

NextCreate ==
    \/ EnterCreate
    \/ SkipUnitKey
    \/ ConvertKey
    \/ ReturnCreate

SpecCreate == InitCreate /\ [][NextCreate]_vars

(***************************************************************************)
(* The claims about SolisDataFactory.create, under SpecCreate.             *)
(***************************************************************************)
ExactlyOne(a, b, c) == (a /\ ~b /\ ~c) \/ (~a /\ b /\ ~c) \/ (~a /\ ~b /\ c)

\* the key k of the raw record has an entry under its canonical key
KeyEmitted(k) == InKeys(ret.items, NewKey(k))
\* k reached the drop rule and was omitted by it
KeyDropped(k) == ~_key_is_unit(k) /\ Dropped(NewKey(k), frame.nr) /\ ~KeyEmitted(k)
\* k held the unit of a sibling key and is not emitted
KeyConsumed(k) ==
    /\ \E j \in 1..Len(given.input) :
          /\ ~_key_is_unit(given.input[j][1])
          /\ ResolveSibling(given.input, given.input[j][1],
                            NewKey(given.input[j][1])) = k
    /\ ~KeyEmitted(k)

\* C1: when create returns a record, every key of the raw record is exactly
\* one of: emitted under its canonical key, omitted by the drop rule of the
\* readings of strings, or consumed as the unit of a sibling key and not
\* emitted.  No key is lost for another reason.
C1_EveryKeyAccountedFor ==
    (pc = "returned" /\ ret.t = "DictType") =>
        \A i \in 1..Len(given.input) :
            ExactlyOne(KeyEmitted(given.input[i][1]),
                       KeyDropped(given.input[i][1]),
                       KeyConsumed(given.input[i][1]))

\* the siblings rule r of the unit resolver looks up for key, in its order
RuleCandidates(r, key) ==
    CASE r = 2 -> <<key \o <<"S", "t", "r">>, key \o <<"U", "n", "i", "t">>>>
      [] r = 3 -> IF PhaseSuffix(key) # <<>>
                  THEN <<DropLastN(key, Len(PhaseSuffix(key))) \o <<"S", "t", "r">>>>
                  ELSE <<>>
      [] r = 4 -> IF EndsWith(key, <<"o", "w", "e", "r", "O", "r", "i", "g", "i", "n">>) \/ EndsWith(key, <<"o", "w", "e", "r", "O", "r", "i", "g", "i", "n", "V", "2">>)
                  THEN <<<<"p", "o", "w", "e", "r", "S", "t", "r">>>>
                  ELSE <<>>
      [] r = 5 -> IF EndsWith(key, <<"V", "2">>)
                  THEN <<DropLastN(key, 2) \o <<"S", "t", "r", "V", "2">>, DropLastN(key, 2) \o <<"U", "n", "i", "t", "V", "2">>>>
                  ELSE <<>>
      [] r = 6 -> IF EndsWith(key, <<"O", "r", "i", "g", "i", "n">>)
                  THEN <<DropLastN(key, 6) \o <<"S", "t", "r">>, DropLastN(key, 6) \o <<"U", "n", "i", "t">>>>
                  ELSE <<>>
      [] r = 7 -> IF EndsWith(key, <<"M", "i", "n">>) \/ EndsWith(key, <<"M", "a", "x">>)
                  THEN <<DropLastN(key, 3) \o <<"S", "t", "r">>, DropLastN(key, 3) \o <<"U", "n", "i", "t">>>>
                  ELSE <<>>
      [] r = 8 -> IF key = <<"p", "r", "i", "c", "e">> THEN <<<<"m", "o", "n", "e", "y">>, <<"u", "n", "i", "t">>>> ELSE <<>>
\* rule r finds a sibling of key in the record
RuleFinds(r, input, key) ==
    \E c \in 1..Len(RuleCandidates(r, key)) : InKeys(input, RuleCandidates(r, key)[c])
\* the unit is the value of a sibling that rule r found
UnitIsOfRule(r, input, key, unit) ==
    \E c \in 1..Len(RuleCandidates(r, key)) :
        /\ InKeys(input, RuleCandidates(r, key)[c])
        /\ unit = GetItem(input, RuleCandidates(r, key)[c])
\* the first of the rules 2 to 8 that finds a sibling, and 0 when none does
FirstRuleThatFinds(input, key) ==
    IF \E r \in 2..8 : RuleFinds(r, input, key)
    THEN CHOOSE r \in 2..8 :
            RuleFinds(r, input, key) /\ \A q \in 2..(r - 1) : ~RuleFinds(q, input, key)
    ELSE 0
\* the loop has just converted the key frame.key
PassedKey == frame # PyNone /\ frame.key # <<>> /\ ~_key_is_unit(frame.key)

\* C2: after the rules 2 to 8 of the unit resolver, the unit of a key is the
\* one the first rule that finds a sibling gives: a rule whose pattern
\* matches but whose sibling is absent does not stop a later rule, and a later
\* rule does not replace what an earlier one found; with no sibling found
\* the unit is None.
C2_FirstRuleThatFindsWins ==
    PassedKey =>
        IF FirstRuleThatFinds(given.input, frame.key) = 0
        THEN frame.chain = PyNone
        ELSE UnitIsOfRule(FirstRuleThatFinds(given.input, frame.key),
                          given.input, frame.key, frame.chain)

C3_Input ==
    << <<<<"a", "c", "O", "u", "t", "p", "u", "t", "P", "o", "w", "e", "r", "O", "r", "i", "g", "i", "n", "V", "2">>, I(3)>>, <<<<"a", "c", "O", "u", "t", "p", "u", "t", "P", "o", "w", "e", "r", "S", "t", "r", "V", "2">>, PyStr(<<"k", "W">>)>> >>
C3_Power ==
    Dim("PowerType",
        ("value" :> I(3000)) @@ ("unit" :> PyStr(<<"W">>))
        @@ ("original_value" :> I(3)) @@ ("original_unit" :> PyStr(<<"k", "W">>)))

\* C3: for the record {"acOutputPowerOriginV2": 3, "acOutputPowerStrV2": "kW"}
\* create resolves the unit "kW" and returns one power value: value 3000,
\* unit "W", original value 3, original unit "kW".
C3_OriginV2Scenario ==
    (pc = "returned" /\ given.input = C3_Input) =>
        /\ frame.unit = PyStr(<<"k", "W">>)
        /\ ret = DictType(<< <<<<"a", "c", "_", "o", "u", "t", "p", "u", "t", "_", "p", "o", "w", "e", "r", "_", "o", "r", "i", "g", "i", "n", "_", "v", "2">>, C3_Power>> >>)

(***************************************************************************)
(* The claims about _create_typed_value, under SpecTyped.                  *)
(***************************************************************************)
\* the documented rules for a key that has no unit, in their priority
DocRule(n, key) ==
    CASE n = 1 -> key \in {<<"s", "t", "a", "t", "e">>, <<"c", "u", "r", "r", "e", "n", "t", "_", "s", "t", "a", "t", "e">>}
      [] n = 2 -> key = <<"s", "t", "a", "t", "e", "_", "e", "x", "c", "e", "p", "t", "i", "o", "n", "_", "f", "l", "a", "g">>
      [] n = 3 -> key = <<"a", "c", "_", "o", "u", "t", "p", "u", "t", "_", "t", "y", "p", "e">>
      [] n = 4 -> key = <<"i", "n", "v", "e", "r", "t", "e", "r", "_", "m", "e", "t", "e", "r", "_", "m", "o", "d", "e", "l">>
      [] n = 5 -> key = <<"s", "t", "a", "t", "i", "o", "n", "_", "t", "y", "p", "e">>
      [] n = 6 -> key = <<"t", "y", "p", "e">>
      [] n = 7 -> EndsWith(key, <<"p", "e", "c">>) \/ EndsWith(key, <<"p", "e", "r", "c", "e", "n", "t">>)
      [] n = 8 -> \/ Contains(key, <<"v", "o", "l", "t", "a", "g", "e">>) \/ Contains(key, <<"u", "p", "v">>)
                  \/ key \in {<<"u", "_", "a">>, <<"u", "_", "b">>, <<"u", "_", "c">>}
      [] n = 9 -> \/ Contains(key, <<"c", "u", "r", "r", "e", "n", "t">>) \/ Contains(key, <<"i", "p", "v">>)
                  \/ key \in {<<"i", "_", "a">>, <<"i", "_", "b">>, <<"i", "_", "c">>}
      [] n = 10 -> key \in {<<"p", "_", "a">>, <<"p", "_", "b">>, <<"p", "_", "c">>}
      [] n = 11 -> EndsWith(key, <<"l", "o", "o", "k", "e", "d", "_", "p", "o", "w", "e", "r">>) \/ EndsWith(key, <<"a", "p", "p", "a", "r", "e", "n", "t", "_", "p", "o", "w", "e", "r">>)
      [] n = 12 -> Contains(key, <<"r", "e", "a", "c", "t", "i", "v", "e", "_", "p", "o", "w", "e", "r">>)
      [] n = 13 -> IsNumberedPowerKey(key) \/ IsPowerKey(key)
      [] n = 14 -> EndsWith(key, <<"e", "n", "e", "r", "g", "y">>)
      [] n = 15 -> Contains(key, <<"_", "t", "i", "m", "e">>) \/ Contains(key, <<"_", "d", "a", "t", "e">>)
      [] n = 16 -> IsTemperatureKey(key)
      [] n = 17 -> TRUE
FirstDocRule(key) ==
    CHOOSE n \in 1..17 : DocRule(n, key) /\ \A m \in 1..(n - 1) : ~DocRule(m, key)
\* what rule n builds for an entity of the given type
DocKind(n, type) ==
    CASE n = 1 -> "State"
      [] n = 2 -> "InverterOfflineState"
      [] n = 3 -> "AcOutputType"
      [] n = 4 -> "InverterModel"
      [] n = 5 -> "PlantType"
      [] n = 6 -> IF type = PLANT THEN "PlantType"
                  ELSE IF type = INVERTER THEN "InverterType" ELSE "int"
      [] n = 7 -> "GenericType"
      [] n = 8 -> "VoltageType"
      [] n = 9 -> "CurrentType"
      [] n = 10 -> "PowerType"
      [] n = 11 -> "ApparentPowerType"
      [] n = 12 -> "ReactivePowerType"
      [] n = 13 -> "PowerType"
      [] n = 14 -> "EnergyType"
      [] n = 15 -> "datetime"
      [] n = 16 -> "TemperatureType"
      [] n = 17 -> "same"
EnumKinds ==
    {"State", "InverterOfflineState", "AcOutputType", "InverterModel", "PlantType",
     "InverterType"}
\* v is a member of the enumeration kind, with its name in title case
IsMemberOf(v, kind) ==
    /\ v.t = "enum"
    /\ \E m \in EnumMembers(kind) : m[1] = v.value /\ Title(m[2]) = v.name
\* v is the kind of result that was documented, made of the raw value
IsKind(v, kind, value) ==
    IF kind \in EnumKinds THEN IsMemberOf(v, kind)
    ELSE IF kind = "int" THEN v = ToInt(value)
    ELSE IF kind = "datetime" THEN v.t = "datetime" /\ ~v.aware
    ELSE IF kind = "same" THEN v = value
    ELSE v.t = "dim" /\ v.cls = kind

\* C4: without a unit, the result _create_typed_value returns is the one of the
\* first documented rule that matches the key and of no later rule: state
\* and current_state give the device state, type gives the plant type of a
\* plant, the inverter type of an inverter and the integer for any other
\* entity, and a key that matches no rule returns the value unchanged.
C4_FirstMatchingRuleDecides ==
    (pc = "returned" /\ given.unit = PyNone /\ ~IsExc(ret)) =>
        IsKind(ret, DocKind(FirstDocRule(given.key), given.type), given.value)

\* current_state with code 1 is the device state Online, not a current
C4_Witness ==
    /\ pc = "returned"
    /\ given.key = <<"c", "u", "r", "r", "e", "n", "t", "_", "s", "t", "a", "t", "e">>
    /\ given.unit = PyNone
    /\ given.value = I(1)
    /\ ret.t = "enum"
    /\ ret.name = <<"O", "n", "l", "i", "n", "e">>

\* the family whose units hold the unit string as it was given: reactive
\* power in any case of "var", temperature with C, and "" when there is none
ReactiveUnit(unit) ==
    Lower(LastN(unit, 3)) = <<"v", "a", "r">> /\ Len(unit) >= 3 /\ IsPrefix(DropLastN(unit, 3))
FamilyOfUnit(unit) ==
    IF ReactiveUnit(unit.s) THEN "ReactivePowerType"
    ELSE IF \E cls \in SiClasses : unit \in UNITS(cls)
    THEN CHOOSE cls \in SiClasses : unit \in UNITS(cls)
    ELSE IF unit = PyStr(<<"C">>) \/ \E i \in 1..3 : TempUNITS[i] = unit
    THEN "TemperatureType"
    ELSE ""
\* the value of that family for the prefix that was given
ValueOfFamily(cls, value, unit) ==
    IF cls = "TemperatureType" THEN TemperatureType(value, unit)
    ELSE IF cls = "ReactivePowerType"
    THEN SiType(cls, value, PyStr(DropLastN(unit.s, 3) \o <<"v", "a", "r">>))
    ELSE SiType(cls, value, unit)
SameQuantity(v, w) ==
    IsExc(w) \/ (v.t = "dim" /\ v.cls = w.cls /\ v.d["value"] = w.d["value"]
                 /\ v.d["unit"] = w.d["unit"])

\* C5: with a unit that a family accepts (reactive power in any case,
\* temperature with C as well), _create_typed_value returns the value of that
\* family, scaled by the multiplier of the prefix that was given.
C5_UnitSelectsFamilyAndScale ==
    (pc = "returned" /\ given.unit.t = "str" /\ FamilyOfUnit(given.unit) # "") =>
        SameQuantity(ret, ValueOfFamily(FamilyOfUnit(given.unit), given.value, given.unit))

(***************************************************************************)
(* The claims about the Dimensioned Values, under SpecDim.                 *)
(***************************************************************************)
\* a value was constructed from given
Constructed == pc # "new" /\ self.t = "dim"
\* the unit given is one of the family and not its default, or is its default
GivenNonDefaultUnit ==
    /\ given.unit.t = "str"
    /\ \/ /\ given.cls \in SiClasses
          /\ given.unit \in UNITS(given.cls)
          /\ given.unit # DEFAULT(given.cls)
       \/ /\ given.cls = "TemperatureType"
          /\ given.unit \in {PyStr(<<"F">>), PyStr(<<"K">>)}
GivenDefaultUnit ==
    /\ given.unit.t = "str"
    /\ \/ given.cls \in SiClasses /\ given.unit = DEFAULT(given.cls)
       \/ given.cls = "TemperatureType" /\ given.unit = DegC
DefaultUnitOf(cls) == IF cls = "TemperatureType" THEN DegC ELSE DEFAULT(cls)

\* C6: a value constructed with a prefix or temperature scale that is not
\* the default has the default unit of its family, and its original value
\* and original unit are the value and the unit given to the constructor.
C6_OriginalsKeepWhatWasGiven ==
    (Constructed /\ GivenNonDefaultUnit /\ IsNum(given.value)) =>
        /\ self.d["unit"] = DefaultUnitOf(given.cls)
        /\ NumEq(original_value(self), given.value)
        /\ original_unit(self) = given.unit

\* C7: a value constructed with the default unit of its family has no
\* stored original_value and no stored original_unit.
C7_DefaultUnitStoresNoOriginals ==
    (Constructed /\ GivenDefaultUnit) =>
        /\ ~HasKey(self.d, "original_value")
        /\ ~HasKey(self.d, "original_unit")

\* |a - b| <= 10^-9 * |b|
FAbs(a) == [a EXCEPT !.neg = FALSE]
IsClose(a, b) ==
    FCmp(FAbs(NumSub(a, b)), FMul(D(1, 9), FAbs(AsFloat(b)))) <= 0
\* to_unit was called with the unit the value was constructed with
RoundTrip ==
    /\ pc = "converted"
    /\ given.cls \in SiClasses
    /\ IsNum(given.value)
    /\ ret.unit = given.unit

\* C8, as stated: constructing v with a prefix and calling to_unit with the
\* same unit returns v.
C8_RoundTripExact ==
    RoundTrip => IsNum(ret.value) /\ NumEq(ret.value, given.value)

\* C8, as amended: it returns a number within a relative tolerance of 10^-9
\* of v.
C8_RoundTripWithinTolerance ==
    RoundTrip => IsNum(ret.value) /\ IsClose(ret.value, given.value)

\* 1 micro-Wh comes back as a float close to 1 and not equal to it
C8_Witness ==
    /\ RoundTrip
    /\ given.cls = "EnergyType"
    /\ given.unit = PyStr(<<"micro", "W", "h">>)
    /\ given.value = I(1)
    /\ ~NumEq(ret.value, given.value)
    /\ IsClose(ret.value, given.value)

\* a whole number is held as an int
WholeIsInt(x) == x.t = "float" => ~FIsWhole(x)

\* C9: in a Dimensioned Value of any family a value that is a whole number
\* is stored as an int, and so is a stored original value.
C9_WholeValuesAreInts ==
    Constructed =>
        /\ WholeIsInt(self.d["value"])
        /\ HasKey(self.d, "original_value") => WholeIsInt(self.d["original_value"])

\* the temperature given, in degrees Celsius
GivenCelsius ==
    TempConverted(("value" :> AsFloat(given.value))
                  @@ ("unit" :> TempUnitIn(given.unit)))

\* C10: TemperatureType(value, unit) with unit C, F or K raises the range
\* error exactly when the value in degrees Celsius is below -273.15.
C10_RangeErrorIffBelowAbsoluteZero ==
    (/\ pc = "constructed"
     /\ given.cls = "TemperatureType"
     /\ given.unit # BadUnit
     /\ IsNum(given.value)) =>
        (self = Raise("ValueError") <=> NumLess(GivenCelsius, FNeg(KELVIN)))

(***************************************************************************)
(* The key normalizer of create on its own: a raw field name is made into  *)
(* new_key, and new_key is handed to the same two substitutions again.     *)
(* given is the field name, frame the first new_key, ret the last one.     *)
(***************************************************************************)
\* field names of at most MaxKeyLen characters: a small letter, a capital, a
\* digit and the underscore in every order, and the names with In and Come
MaxKeyLen == 4
KeyChars == {"a", "B", "1", "_"}
RECURSIVE KeysOfLen(_)
KeysOfLen(n) ==
    IF n = 0 THEN {<<>>}
    ELSE {Append(k, c) : k \in KeysOfLen(n - 1), c \in KeyChars}
RawKeys ==
    UNION {KeysOfLen(n) : n \in 1..MaxKeyLen}
    \cup {<<"i", "n", "C", "o", "m", "e">>, <<"d", "a", "y", "I", "n", "C", "o", "m", "e">>, <<"i", "n", "_", "c", "o", "m", "e">>, <<"I", "n", "_", "C", "o", "m", "e">>, <<"i", "n", "C", "o", "m", "e", "i", "n", "C", "o", "m", "e">>, <<"i", "n", "I", "n", "_", "c", "o", "m", "e", "C", "o", "m", "e">>,
          <<"a", "c", "O", "u", "t", "p", "u", "t", "P", "o", "w", "e", "r", "O", "r", "i", "g", "i", "n", "V", "2">>, <<"p", "o", "w", "1", "S", "t", "r">>, <<"u", "P", "v", "1", "2">>, <<"d", "a", "t", "a", "T", "i", "m", "e", "s", "t", "a", "m", "p">>}

InitKey ==
    /\ pc = "call"
    /\ \E key \in RawKeys : given = [op |-> "new_key", key |-> key]
    /\ self = PyNone
    /\ ret = PyNone
    /\ frame = PyNone

\* new_key = pattern.sub('_', key).lower(), then the in_come substitution
NormalizeKey ==
    /\ pc = "call"
    /\ given.op = "new_key"
    /\ ret' = NewKey(given.key)
    /\ pc' = "normalized"
    /\ UNCHANGED <<given, self, frame>>

\* the same with new_key in the place of key
NormalizeAgain ==
    /\ pc = "normalized"
    /\ frame' = ret
    /\ ret' = NewKey(ret)
    /\ pc' = "renormalized"
    /\ UNCHANGED <<given, self>>

NextKey ==
    \/ NormalizeKey
    \/ NormalizeAgain

SpecKey == InitKey /\ [][NextKey]_vars

(***************************************************************************)
(* The claim about the key normalizer, under SpecKey.                      *)
(***************************************************************************)
\* C11: the key normalizer applied to its own output gives that output back.
C11_KeyNormalizationIdempotent ==
    pc = "renormalized" => ret = frame

(***************************************************************************)
(* More claims about SolisDataFactory.create, under SpecCreate.            *)
(***************************************************************************)
\* create has returned a record
Returned == pc = "returned" /\ ~IsExc(ret)
\* a canonical key of a reading of a string, and the integer at its end
StringPrefix(nk) ==
    FirstN(nk, 4) \in {<<"i", "_", "p", "v">>, <<"u", "_", "p", "v">>, <<"p", "o", "w", "_">>, <<"m", "p", "p", "t">>}
EndsInDigit(nk) == nk # <<>> /\ IsDigit(nk[Len(nk)])
TrailingInt(nk) == PyIntOf(FALSE, DigitsToBig(LastDigitRun(nk), 1, <<>>))
\* the declared count: dcInputtype plus one, and 0 without dcInputtype
DeclaredCount(input) ==
    IF InKeys(input, <<"d", "c", "I", "n", "p", "u", "t", "t", "y", "p", "e">>) THEN PlusOne(GetItem(input, <<"d", "c", "I", "n", "p", "u", "t", "t", "y", "p", "e">>)) ELSE I(0)
WithinCount(nk, input) ==
    ~NumLess(DeclaredCount(input), TrailingInt(nk))

\* C12: a key whose canonical name starts with i_pv, u_pv, pow_ or mppt and
\* ends in an integer n is emitted exactly when n is at most dcInputtype + 1
\* (0 without dcInputtype), and a key of another prefix that is no unit key
\* and has a value is always emitted.
C12_DropRule ==
    Returned =>
        \A a \in 1..Len(given.input) :
           /\ (StringPrefix(NewKey(given.input[a][1])) /\ EndsInDigit(NewKey(given.input[a][1])))
                 => (InKeys(ret.items, NewKey(given.input[a][1]))
                        <=> WithinCount(NewKey(given.input[a][1]), given.input))
           /\ (/\ ~StringPrefix(NewKey(given.input[a][1]))
               /\ ~_key_is_unit(given.input[a][1])
               /\ given.input[a][2] # PyNone)
                 => InKeys(ret.items, NewKey(given.input[a][1]))

\* the unit of the key just converted as the rules before the temperature
\* rule leave it: the unit of 'money' for an income key of a record with
\* 'money', and the unit of the if/elif chain otherwise
IsIncomeKey(nk) == Contains(nk, <<"i", "n", "c", "o", "m", "e">>)
EndsInTemp(nk) == LastN(nk, 4) = <<"t", "e", "m", "p">> \/ LastN(nk, 11) = <<"t", "e", "m", "p", "e", "r", "a", "t", "u", "r", "e">>
UnitBeforeTemp ==
    IF IsIncomeKey(frame.new_key) /\ InKeys(given.input, <<"m", "o", "n", "e", "y">>)
    THEN GetItem(given.input, <<"m", "o", "n", "e", "y">>)
    ELSE frame.chain

\* C13: the unit of an income key is the value of 'money' whenever the
\* record has 'money', whatever was found before; the unit of a key ending in
\* temp or temperature is 'tmpUnit' only when no unit was found before, and
\* is the unit found before otherwise.
C13_IncomeOverridesTempFillsIn ==
    PassedKey =>
        frame.unit =
            IF /\ EndsInTemp(frame.new_key)
               /\ UnitBeforeTemp = PyNone
               /\ InKeys(given.input, <<"t", "m", "p", "U", "n", "i", "t">>)
            THEN GetItem(given.input, <<"t", "m", "p", "U", "n", "i", "t">>)
            ELSE UnitBeforeTemp
\* an income key whose unit the chain found is given the unit of 'money'
C13_Witness ==
    /\ PassedKey
    /\ frame.new_key = <<"d", "a", "y", "_", "i", "n", "c", "o", "m", "e">>
    /\ frame.chain = PyStr(<<"U", "S", "D">>)
    /\ frame.unit = PyStr(<<"E", "U", "R">>)
\* a temperature key whose unit the chain found keeps it next to 'tmpUnit'
C13_TempKeepsUnit ==
    /\ PassedKey
    /\ EndsInTemp(frame.new_key)
    /\ InKeys(given.input, <<"t", "m", "p", "U", "n", "i", "t">>)
    /\ frame.chain = PyStr(<<"K">>)
    /\ frame.unit = PyStr(<<"K">>)

(***************************************************************************)
(* More claims about _create_typed_value, under SpecTyped.                 *)
(***************************************************************************)
\* _create_typed_value has returned for a call without a unit
ReturnedNoUnit == pc = "returned" /\ given.unit = PyNone

\* C14: for a key ending in pec or percent with no unit and a number v, whole
\* or not, the result is a GenericType with unit % and value v * 100.
C14_PercentTimesHundred ==
    (ReturnedNoUnit /\ IsPercentKey(given.key) /\ IsNum(given.value)) =>
        /\ ~IsExc(ret)
        /\ ret.t = "dim"
        /\ ret.cls = "GenericType"
        /\ ret.d["unit"] = PyStr(<<"%">>)
        /\ NumEq(ret.d["value"], NumMul(given.value, I(100)))

\* a canonical key with a timestamp, date or time suffix, and a time in
\* milliseconds since the epoch: an int that is not negative, or its numeral
DateTimeSuffix(nk) ==
    EndsWith(nk, <<"_", "t", "i", "m", "e", "s", "t", "a", "m", "p">>) \/ EndsWith(nk, <<"_", "t", "i", "m", "e">>) \/ EndsWith(nk, <<"_", "d", "a", "t", "e">>)
IsEpoch(v) ==
    \/ v.t = "int" /\ ~v.neg
    \/ v.t = "str" /\ v.s # <<>> /\ AllDigits(v.s)
EpochOf(v) == IF v.t = "int" THEN v ELSE PyIntOf(FALSE, DigitsToBig(v.s, 1, <<>>))
\* the timestamp of e / 1000 seconds: with the offset of the descriptor in
\* the unit, and naive when the unit has no descriptor or is None
TimestampOf(e, unit) ==
    IF unit.t = "str" /\ TzMatches(unit.s)
    THEN DateTime(NumDiv(e, D(1000, 0)), TRUE, TzMinutes(unit.s))
    ELSE DateTime(NumDiv(e, D(1000, 0)), FALSE, 0)
\* the key just converted is one with a time
PassedTime ==
    /\ PassedKey
    /\ DateTimeSuffix(frame.new_key)
    /\ IsEpoch(GetItem(given.input, frame.key))

\* C15: a key with a timestamp, date or time suffix and a value e in
\* milliseconds becomes the timestamp of e / 1000 seconds: aware, with the
\* signed offset of the descriptor UTC+HH:MM of its unit, and naive when the
\* unit has no such descriptor or there is no unit.
C15_TimestampOfMilliseconds ==
    PassedTime =>
        /\ ~(pc = "returned" /\ IsExc(ret))
        /\ InKeys(frame.data.items, frame.new_key)
        /\ GetItem(frame.data.items, frame.new_key)
              = TimestampOf(EpochOf(GetItem(given.input, frame.key)), frame.unit)

(***************************************************************************)
(* Equality of Dimensioned and Enumerated Values.  given holds the two     *)
(* operands as they are written, self the two objects once constructed,    *)
(* ret the outcome of left == right and then of right == left, and frame   *)
(* the outcome of left == right while the operands are taken the other way *)
(* round.                                                                  *)
(***************************************************************************)
PyBool(b) == [t |-> "bool", v |-> b]

\* an __eq__ that compares the values alone, and no units
DimEqByValue(a, other) ==
    IF other.t = "dim" /\ other.cls = a.cls
    THEN NumEq(a.d["value"], other.d["value"])
    ELSE FALSE
\* DimensionedType.__eq__
DimEq(a, other) ==
    IF other.t = "dim" /\ other.cls = a.cls
    THEN NumEq(a.d["value"], other.d["value"]) /\ a.d["unit"] = other.d["unit"]
    ELSE FALSE

\* an __eq__ that compares the codes alone, and no names
EnumEqByCode(a, other) ==
    IF other.t = "enum" THEN a.value = other.value
    ELSE IF other.t = "int" THEN I(a.value) = other
    ELSE FALSE
\* EnumType.__eq__
EnumEq(a, other) ==
    IF other.t = "enum" THEN a.value = other.value /\ a.name = other.name
    ELSE IF other.t = "int" THEN I(a.value) = other
    ELSE IF other.t = "str" THEN a.name = other.s
    ELSE FALSE

\* left == right: the __eq__ of the left operand, that of the right operand
\* when the left one is a plain value, and the equality of plain values
PyEq(left, right) ==
    IF left.t = "dim" THEN DimEq(left, right)
    ELSE IF left.t = "enum" THEN EnumEq(left, right)
    ELSE IF right.t = "dim" THEN DimEq(right, left)
    ELSE IF right.t = "enum" THEN EnumEq(right, left)
    ELSE IF IsNum(left) /\ IsNum(right) THEN NumEq(left, right)
    ELSE left = right

\* the operands: Dimensioned Values by class, value and unit, Enumerated
\* Values by class and code, and plain values
NewDim(cls, value, unit) == [op |-> "new", cls |-> cls, value |-> value, unit |-> unit]
NewEnum(cls, code) == [op |-> "enum", cls |-> cls, value |-> I(code), unit |-> PyNone]
Plain(v) == [op |-> "plain", cls |-> "", value |-> v, unit |-> PyNone]
SamePrefixed(cls) ==
    << NewDim(cls, I(3000), PyStr(<<"m">> \o BASE_UNIT(cls))),
       NewDim(cls, I(3), PyStr(BASE_UNIT(cls))),
       NewDim(cls, D(3, 3), PyStr(<<"k">> \o BASE_UNIT(cls))),
       NewDim(cls, I(4), PyStr(BASE_UNIT(cls))) >>
Operands ==
    SamePrefixed("VoltageType") \o SamePrefixed("EnergyType") \o SamePrefixed("PowerType")
    \o << NewDim("GenericType", I(3), PyStr(<<"V">>)), NewDim("GenericType", I(3), PyNone),
          NewDim("GenericType", I(3), PyStr(<<"E", "U", "R">>)), NewDim("CurrencyType", I(3), PyStr(<<"E", "U", "R">>)),
          NewDim("CurrencyType", I(4), PyStr(<<"E", "U", "R">>)),
          NewDim("TemperatureType", I(3), DegC), NewDim("TemperatureType", I(276), PyStr(<<"K">>)),
          NewEnum("State", 1), NewEnum("State", 2), NewEnum("State", 3),
          NewEnum("CollectorState", 1), NewEnum("InverterType", 1), NewEnum("PlantType", 0),
          NewEnum("PlantType", 1), NewEnum("AcOutputType", 1),
          Plain(I(0)), Plain(I(1)), Plain(I(2)), Plain(I(3)), Plain(IntToFloat(I(1))),
          Plain(PyStr(<<"O", "n", "l", "i", "n", "e">>)), Plain(PyStr(<<"O", "N", "L", "I", "N", "E">>)), Plain(PyStr(<<"O", "f", "f", "l", "i", "n", "e">>)),
          Plain(PyStr(<<"G", "r", "i", "d">>)), Plain(PyStr(<<"1">>)), Plain(PyNone) >>

\* the object an operand stands for
Construct(x) ==
    IF x.op = "enum" THEN EnumType(x.cls, x.value)
    ELSE IF x.op = "plain" THEN x.value
    ELSE IF x.cls \in SiClasses THEN SiType(x.cls, x.value, x.unit)
    ELSE IF x.cls = "TemperatureType" THEN TemperatureType(x.value, x.unit)
    ELSE IF x.cls = "CurrencyType" THEN CurrencyType(x.value, x.unit)
    ELSE GenericType(x.value, x.unit)

InitEq ==
    /\ pc = "call"
    /\ \E a, b \in 1..Len(Operands) :
          given = [op |-> "eq", left |-> Operands[a], right |-> Operands[b]]
    /\ self = PyNone
    /\ ret = PyNone
    /\ frame = PyNone

\* the two operands are constructed
ConstructOperands ==
    /\ pc = "call"
    /\ given.op = "eq"
    /\ self' = [left |-> Construct(given.left), right |-> Construct(given.right)]
    /\ pc' = "constructed"
    /\ UNCHANGED <<given, ret, frame>>

\* left == right
Compare ==
    /\ pc = "constructed"
    /\ ret' = PyBool(PyEq(self.left, self.right))
    /\ pc' = "compared"
    /\ UNCHANGED <<given, self, frame>>

\* right == left
CompareReversed ==
    /\ pc = "compared"
    /\ frame' = ret
    /\ ret' = PyBool(PyEq(self.right, self.left))
    /\ pc' = "reversed"
    /\ UNCHANGED <<given, self>>

NextEq ==
    \/ ConstructOperands
    \/ Compare
    \/ CompareReversed

SpecEq == InitEq /\ [][NextEq]_vars

(***************************************************************************)
(* The claims about equality, under SpecEq.                                *)
(***************************************************************************)
\* C16: an Enumerated Value equals an Enumerated Value of the same code and
\* name, the int of its code and the string of its name, and nothing else:
\* no other int or string, and no value of another type.
C16_EnumEquality ==
    (pc = "compared" /\ self.left.t = "enum") =>
        (ret.v <=>
            \/ self.right.t = "enum" /\ self.right.value = self.left.value
                                     /\ self.right.name = self.left.name
            \/ self.right.t = "int" /\ self.right = I(self.left.value)
            \/ self.right.t = "str" /\ self.right.s = self.left.name)
\* the value of the device state 1 is compared with "Online", and is equal
C16_Witness ==
    /\ pc = "compared"
    /\ given.left = NewEnum("State", 1)
    /\ self.left.name = <<"O", "n", "l", "i", "n", "e">>
    /\ self.right = PyStr(<<"O", "n", "l", "i", "n", "e">>)
    /\ ret.v

\* both operands are Dimensioned Values, and their normalized pairs are equal
BothDimensioned == self.left.t = "dim" /\ self.right.t = "dim"
SamePair ==
    /\ NumEq(self.left.d["value"], self.right.d["value"])
    /\ self.left.d["unit"] = self.right.d["unit"]
\* 3000 m-unit, 3 unit and 0.003 k-unit of one family
GivenSameQuantity ==
    /\ given.left.cls = given.right.cls
    /\ given.left.cls \in SiClasses
    /\ \E a, b \in 1..3 : /\ given.left = SamePrefixed(given.left.cls)[a]
                          /\ given.right = SamePrefixed(given.left.cls)[b]

\* C17 as stated: two Dimensioned Values are equal exactly when their
\* normalized (value, unit) pairs are equal; 3000 m-unit, 3 unit and 0.003
\* k-unit are equal; and right == left gives what left == right gave.
C17_EqualIffSamePair ==
    /\ (pc = "compared" /\ BothDimensioned) => (ret.v <=> SamePair)
    /\ (pc = "compared" /\ GivenSameQuantity) => ret.v
    /\ (pc = "reversed" /\ BothDimensioned) => ret = frame

\* C17: two Dimensioned Values are equal exactly when they are of the same
\* family and their normalized (value, unit) pairs are equal; 3000 m-unit,
\* 3 unit and 0.003 k-unit of one family are equal; and right == left gives
\* what left == right gave.
C17_EqualIffSameFamilyAndPair ==
    /\ (pc = "compared" /\ BothDimensioned)
          => (ret.v <=> (self.left.cls = self.right.cls /\ SamePair))
    /\ (pc = "compared" /\ GivenSameQuantity) => ret.v
    /\ (pc = "reversed" /\ BothDimensioned) => ret = frame
\* 0.003 kV and 3000 mV have been compared both ways, and are equal
C17_Witness ==
    /\ pc = "reversed"
    /\ given.left = SamePrefixed("VoltageType")[3]
    /\ given.right = SamePrefixed("VoltageType")[1]
    /\ ret.v
    /\ frame.v

(***************************************************************************)
(* Entities (entities.py).  An entity holds the record SolisDataFactory    *)
(* made of its raw data.  given is the call: a constructor with its data,  *)
(* or from_data with its data and keyword arguments; self is the entity    *)
(* last constructed or taken from the list returned, ret what the call or  *)
(* the id alias returned or raised, and frame the locals of                *)
(* _do_initialize_from_data while its loop runs: the index of the next     *)
(* record, data_list and items.                                            *)
(***************************************************************************)
EntityClasses == {"Plant", "Inverter", "Collector"}
TypeOfClass(cls) ==
    IF cls = "Plant" THEN PLANT ELSE IF cls = "Inverter" THEN INVERTER ELSE COLLECTOR

\* SolisEntity.__init__: self._data = SolisDataFactory.create(type, data)
SolisEntity(cls, d) == IF IsExc(d) THEN d ELSE [t |-> "entity", cls |-> cls, data |-> d]
\* Plant(data), Inverter(data), Collector(data)
NewEntity(cls, data) ==
    IF data.t # "dict" THEN Raise("ValueError")
    ELSE IF ~InKeys(data.items, <<"i", "d">>) THEN Raise("ValueError")
    ELSE Bind(create(TypeOfClass(cls), data.items), LAMBDA d : SolisEntity(cls, d))

\* plant_id, inverter_id, collector_id
IdAlias(e) ==
    IF InKeys(e.data.items, <<"i", "d">>) THEN GetItem(e.data.items, <<"i", "d">>)
    ELSE Raise("AttributeError")

\* _normalize_to_list(data)
_normalize_to_list(data) == IF data.t = "dict" THEN PyList(<<data>>) ELSE data
\* what `for record in data_list` goes through: the items of a list and the
\* characters of a string; anything else is not iterable
Iterable(x) == x.t \in {"list", "str"}
RecordsOf(x) ==
    IF x.t = "list" THEN x.items ELSE [i \in 1..Len(x.s) |-> PyStr(<<x.s[i]>>)]

\* the keyword arguments from_data of each class hands on as filters
FiltersOf(cls, kw) ==
    IF cls = "Plant" THEN << <<<<"i", "d">>, kw.plant_id>> >>
    ELSE IF cls = "Inverter"
    THEN << <<<<"s", "t", "a", "t", "i", "o", "n", "I", "d">>, kw.plant_id>>, <<<<"i", "d">>, kw.inverter_id>> >>
    ELSE << <<<<"i", "d">>, kw.collector_id>>, <<<<"s", "t", "a", "t", "i", "o", "n", "I", "d">>, kw.station_id>> >>

\* record.get(key)
RecordGet(record, key) ==
    IF InKeys(record.items, key) THEN GetItem(record.items, key) ELSE PyNone
\* the filter loop: no filter with a value differs from the record
Matches(record, filters) ==
    \A f \in 1..Len(filters) :
       filters[f][2] = PyNone \/ PyEq(RecordGet(record, filters[f][1]), filters[f][2])

\* the raw data: records with and without id, and what is no record
MaxRecords == 2
RawRecords ==
    << PyDict(<< <<<<"i", "d">>, I(1)>>, <<<<"s", "t", "a", "t", "i", "o", "n", "I", "d">>, I(7)>> >>),
       PyDict(<< <<<<"i", "d">>, I(2)>>, <<<<"s", "t", "a", "t", "i", "o", "n", "I", "d">>, I(7)>> >>),
       PyDict(<< <<<<"i", "d">>, I(1)>>, <<<<"s", "t", "a", "t", "i", "o", "n", "I", "d">>, I(8)>> >>),
       PyDict(<< <<<<"i", "d">>, PyStr(<<"1">>)>>, <<<<"s", "t", "a", "t", "i", "o", "n", "I", "d">>, I(7)>> >>),
       PyDict(<< <<<<"s", "t", "a", "t", "i", "o", "n", "I", "d">>, I(7)>> >>),
       PyDict(<< <<<<"i", "d">>, PyNone>> >>),
       PyStr(<<"i", "d">>) >>
RECURSIVE ListsOf(_)
ListsOf(n) ==
    IF n = 0 THEN {<<>>}
    ELSE {Append(l, RawRecords[r]) : l \in ListsOf(n - 1), r \in 1..Len(RawRecords)}
RawData ==
    {RawRecords[r] : r \in 1..Len(RawRecords)}
    \cup {PyList(l) : l \in UNION {ListsOf(n) : n \in 0..MaxRecords}}
    \cup {PyNone, I(5), PyStr(<<>>)}
FilterValues == {PyNone, I(1), I(7)}
NoKeywords ==
    [plant_id |-> PyNone, inverter_id |-> PyNone, id |-> PyNone,
     collector_id |-> PyNone, station_id |-> PyNone]
Keywords(cls) ==
    IF cls = "Plant" THEN {[NoKeywords EXCEPT !.plant_id = a] : a \in FilterValues}
    ELSE IF cls = "Inverter"
    THEN {[NoKeywords EXCEPT !.plant_id = a, !.inverter_id = b, !.id = c] :
             a \in {PyNone, I(7)}, b \in {PyNone, I(1)}, c \in {PyNone, I(1)}}
    ELSE {[NoKeywords EXCEPT !.collector_id = a, !.station_id = b] :
             a \in {PyNone, I(1)}, b \in {PyNone, I(7)}}

InitEntity ==
    /\ pc = "call"
    /\ \E cls \in EntityClasses, data \in RawData :
          \/ given = [op |-> "new_entity", cls |-> cls, data |-> data, kw |-> NoKeywords]
          \/ \E kw \in Keywords(cls) :
                given = [op |-> "from_data", cls |-> cls, data |-> data, kw |-> kw]
    /\ self = PyNone
    /\ ret = PyNone
    /\ frame = PyNone

\* cls(data), called directly
Construct_Entity ==
    /\ pc = "call"
    /\ given.op = "new_entity"
    /\ self' = NewEntity(given.cls, given.data)
    /\ pc' = "constructed"
    /\ UNCHANGED <<given, ret, frame>>

\* from_data up to the loop of _do_initialize_from_data: items is empty
\* and data_list is iterated, or raises TypeError when it cannot be
EnterFromData ==
    /\ pc = "call"
    /\ given.op = "from_data"
    /\ IF Iterable(_normalize_to_list(given.data))
       THEN /\ frame' = [i |-> 1, data_list |-> RecordsOf(_normalize_to_list(given.data)),
                         items |-> <<>>]
            /\ pc' = "records"
            /\ ret' = ret
       ELSE /\ ret' = Raise("TypeError")
            /\ pc' = "returned"
            /\ frame' = frame
    /\ UNCHANGED <<given, self>>

\* one pass of the loop over what is no dict, or a dict without 'id'
RejectRecord ==
    /\ pc = "records"
    /\ frame.i <= Len(frame.data_list)
    /\ ~(/\ frame.data_list[frame.i].t = "dict"
          /\ InKeys(frame.data_list[frame.i].items, <<"i", "d">>))
    /\ ret' = Raise("ValueError")
    /\ pc' = "returned"
    /\ UNCHANGED <<given, self, frame>>

\* one pass over a record some filter does not match
SkipRecord ==
    /\ pc = "records"
    /\ frame.i <= Len(frame.data_list)
    /\ frame.data_list[frame.i].t = "dict"
    /\ InKeys(frame.data_list[frame.i].items, <<"i", "d">>)
    /\ ~Matches(frame.data_list[frame.i], FiltersOf(given.cls, given.kw))
    /\ frame' = [frame EXCEPT !.i = @ + 1]
    /\ UNCHANGED <<pc, given, self, ret>>

\* one pass over a record every filter matches: items.append(cls(record)),
\* and what cls(record) raises ends the call
AppendRecord ==
    /\ pc = "records"
    /\ frame.i <= Len(frame.data_list)
    /\ frame.data_list[frame.i].t = "dict"
    /\ InKeys(frame.data_list[frame.i].items, <<"i", "d">>)
    /\ Matches(frame.data_list[frame.i], FiltersOf(given.cls, given.kw))
    /\ self' = NewEntity(given.cls, frame.data_list[frame.i])
    /\ IF IsExc(self')
       THEN ret' = self' /\ pc' = "returned" /\ frame' = frame
       ELSE /\ frame' = [frame EXCEPT !.i = @ + 1, !.items = Append(@, self')]
            /\ UNCHANGED <<pc, ret>>
    /\ UNCHANGED given

\* return items
ReturnFromData ==
    /\ pc = "records"
    /\ frame.i > Len(frame.data_list)
    /\ ret' = PyList(frame.items)
    /\ pc' = "returned"
    /\ UNCHANGED <<given, self, frame>>

\* the caller takes one entity of the list returned; frame is its index
TakeEntity ==
    /\ pc = "returned"
    /\ given.op = "from_data"
    /\ ~IsExc(ret)
    /\ \E k \in 1..Len(ret.items) :
          /\ self' = ret.items[k]
          /\ frame' = k
    /\ pc' = "constructed"
    /\ UNCHANGED <<given, ret>>

\* the id alias of the entity: plant_id, inverter_id or collector_id
ReadId ==
    /\ pc = "constructed"
    /\ ~IsExc(self)
    /\ ret' = IdAlias(self)
    /\ pc' = "read"
    /\ UNCHANGED <<given, self, frame>>

NextEntity ==
    \/ Construct_Entity
    \/ EnterFromData
    \/ RejectRecord
    \/ SkipRecord
    \/ AppendRecord
    \/ ReturnFromData
    \/ TakeEntity
    \/ ReadId

SpecEntity == InitEntity /\ [][NextEntity]_vars

(***************************************************************************)
(* The claims about entities, under SpecEntity.                            *)
(***************************************************************************)
\* a record object with the field id, and the raw data from_data accepts: a
\* record or a list of records
IsRecordWithId(x) == x.t = "dict" /\ InKeys(x.items, <<"i", "d">>)
InputRecords(data) ==
    IF data.t = "dict" THEN <<data>> ELSE IF data.t = "list" THEN data.items ELSE <<>>
ValidInput(data) ==
    /\ data.t \in {"dict", "list"}
    /\ \A r \in 1..Len(InputRecords(data)) : IsRecordWithId(InputRecords(data)[r])
NoFilters == given.kw = NoKeywords

\* C18: a constructor called directly, and from_data, raise ValueError
\* whenever the raw input, or a record of the input list, is no record
\* object or lacks id; and the id alias of an entity constructed is the
\* raw id of its record.
C18_EntityNeedsRecordWithId ==
    /\ (pc = "constructed" /\ given.op = "new_entity" /\ ~IsRecordWithId(given.data))
          => self = Raise("ValueError")
    /\ (pc = "returned" /\ given.op = "from_data" /\ ~ValidInput(given.data))
          => ret = Raise("ValueError")
    /\ (pc = "read" /\ given.op = "new_entity")
          => ret = GetItem(given.data.items, <<"i", "d">>)
    /\ (pc = "read" /\ given.op = "from_data" /\ NoFilters)
          => ret = GetItem(InputRecords(given.data)[frame].items, <<"i", "d">>)

\* the filters a caller of from_data can give, each with the raw field it
\* is compared with
GivenFilters(cls, kw) ==
    IF cls = "Plant" THEN << <<<<"i", "d">>, kw.plant_id>> >>
    ELSE IF cls = "Inverter"
    THEN << <<<<"s", "t", "a", "t", "i", "o", "n", "I", "d">>, kw.plant_id>>, <<<<"i", "d">>, kw.inverter_id>>, <<<<"i", "d">>, kw.id>> >>
    ELSE << <<<<"i", "d">>, kw.collector_id>>, <<<<"s", "t", "a", "t", "i", "o", "n", "I", "d">>, kw.station_id>> >>
EqualsEveryFilter(record, filters) ==
    \A f \in 1..Len(filters) :
       filters[f][2] # PyNone => PyEq(RecordGet(record, filters[f][1]), filters[f][2])
\* one entity for each record that equals every filter, in the order of the
\* records
RECURSIVE EntitiesOf(_, _, _, _)
EntitiesOf(cls, records, i, filters) ==
    IF i > Len(records) THEN <<>>
    ELSE (IF EqualsEveryFilter(records[i], filters)
          THEN <<NewEntity(cls, records[i])>> ELSE <<>>)
         \o EntitiesOf(cls, records, i + 1, filters)

DEFAULT_DOMAIN == <<"h", "t", "t", "p", "s", ":", "/", "/", "w", "w", "w", ".", "s", "o", "l", "i", "s", "c", "l", "o", "u", "d", ".", "c", "o", "m", ":", "1", "3", "3", "3", "3">>
\* str.rstrip("/")
RECURSIVE rstrip(_)
rstrip(s) ==
    IF s # <<>> /\ s[Len(s)] = "/" THEN rstrip(SubSeq(s, 1, Len(s) - 1)) ELSE s
\* SoliscloudAPI(domain, session): _domain is assigned only when a domain
\* is given, the default going to the local variable; an attribute never
\* assigned is absent from the object
SoliscloudAPI(domain, session) ==
    IF domain = PyNone THEN [t |-> "api", _session |-> session]
    ELSE [t |-> "api", _domain |-> PyStr(rstrip(domain.s)), _session |-> session]
\* the domain property: self._domain
domain(api) == IF "_domain" \in DOMAIN api THEN api._domain ELSE Raise("AttributeError")

\* the patterns of _verify_date, without their anchors
DatePattern(format, s) ==
    IF format = "MONTH"
    THEN /\ Len(s) = 7
         /\ \A i \in 1..7 : IF i = 5 THEN s[i] = "-" ELSE IsDigit(s[i])
    ELSE IF format = "YEAR"
    THEN /\ Len(s) = 4
         /\ \A i \in 1..4 : IsDigit(s[i])
    ELSE /\ Len(s) = 10
         /\ \A i \in 1..10 : IF i \in {5, 8} THEN s[i] = "-" ELSE IsDigit(s[i])
\* rex.match(date) for "^...$": $ matches at the end of the string and
\* also before a newline that ends the string
RexMatch(format, s) ==
    \/ DatePattern(format, s)
    \/ /\ Len(s) > 0
       /\ s[Len(s)] = "\n"
       /\ DatePattern(format, SubSeq(s, 1, Len(s) - 1))
\* _verify_date(format, date): re.match raises TypeError on what is no string
_verify_date(format, date) ==
    IF date.t # "str" THEN Raise("TypeError")
    ELSE IF ~RexMatch(format, date.s) THEN Raise("SoliscloudError")
    ELSE PyNone

\* the three preconditions on a pair of identifiers have one shape: exactly
\* one of the two is given, or SoliscloudError
_precondition_station_or_nmi(station_id, nmi_code) ==
    IF station_id # PyNone /\ nmi_code = PyNone THEN PyNone
    ELSE IF station_id = PyNone /\ nmi_code # PyNone THEN PyNone
    ELSE Raise("SoliscloudError")
_precondition_inverter_id_or_sn(inverter_id, inverter_sn) ==
    IF inverter_sn # PyNone /\ inverter_id = PyNone THEN PyNone
    ELSE IF inverter_sn = PyNone /\ inverter_id # PyNone THEN PyNone
    ELSE Raise("SoliscloudError")
_precondition_collector_id_or_sn(collector_id, collector_sn) ==
    IF collector_sn # PyNone /\ collector_id = PyNone THEN PyNone
    ELSE IF collector_sn = PyNone /\ collector_id # PyNone THEN PyNone
    ELSE Raise("SoliscloudError")
\* _precondition_page_size(page_size); page_size is kept as a plain integer
_precondition_page_size(page_size) ==
    IF page_size > 100 THEN Raise("SoliscloudError") ELSE PyNone

\* the statements of a method body in order: the first that raises ends it
RECURSIVE InOrder(_)
InOrder(steps) ==
    IF steps = <<>> THEN PyNone
    ELSE IF IsExc(Head(steps)) THEN Head(steps)
    ELSE InOrder(Tail(steps))

\* the checks written out in the method bodies themselves
RequireGiven(x) == IF x = PyNone THEN Raise("SoliscloudError") ELSE PyNone
RequireTruthy(x) ==
    IF x = PyNone \/ x = PyStr(<<>>) THEN Raise("SoliscloudError") ELSE PyNone
RequireSerials(x) ==
    IF x.t \in {"int", "str", "list"} THEN PyNone ELSE Raise("SoliscloudError")
RequireOneOf(x, y) ==
    IF x # PyNone /\ y = PyNone THEN PyNone
    ELSE IF x = PyNone /\ y # PyNone THEN PyNone
    ELSE Raise("SoliscloudError")

\* the body of each public endpoint method up to its request: what it
\* raises, or None when it goes on to _get_records or _get_data
Precondition(m, a) ==
    CASE m \in {"user_station_list", "collector_list", "inverter_list",
                "station_detail_list", "inverter_detail_list", "epm_list",
                "weather_list"} ->
            _precondition_page_size(a.page_size)
      [] m = "station_detail" ->
            _precondition_station_or_nmi(a.station_id, a.nmi_code)
      [] m = "collector_detail" ->
            _precondition_collector_id_or_sn(a.collector_id, a.collector_sn)
      [] m = "collector_day" ->
            InOrder(<<_verify_date("DAY", a.time), RequireGiven(a.collector_sn)>>)
      [] m = "inverter_detail" ->
            _precondition_inverter_id_or_sn(a.inverter_id, a.inverter_sn)
      [] m = "station_day" ->
            InOrder(<<_verify_date("DAY", a.time),
                      _precondition_station_or_nmi(a.station_id, a.nmi_code)>>)
      [] m = "station_month" ->
            InOrder(<<_verify_date("MONTH", a.month),
                      _precondition_station_or_nmi(a.station_id, a.nmi_code)>>)
      [] m = "station_year" ->
            InOrder(<<_verify_date("YEAR", a.year),
                      _precondition_station_or_nmi(a.station_id, a.nmi_code)>>)
      [] m = "station_all" ->
            _precondition_station_or_nmi(a.station_id, a.nmi_code)
      [] m = "inverter_day" ->
            InOrder(<<_verify_date("DAY", a.time),
                      _precondition_inverter_id_or_sn(a.inverter_id, a.inverter_sn)>>)
      [] m = "inverter_month" ->
            InOrder(<<_verify_date("MONTH", a.month),
                      _precondition_inverter_id_or_sn(a.inverter_id, a.inverter_sn)>>)
      [] m = "inverter_year" ->
            InOrder(<<_verify_date("YEAR", a.year),
                      _precondition_inverter_id_or_sn(a.inverter_id, a.inverter_sn)>>)
      [] m = "inverter_all" ->
            _precondition_inverter_id_or_sn(a.inverter_id, a.inverter_sn)
      [] m = "inverter_shelf_time" ->
            InOrder(<<_precondition_page_size(a.page_size), RequireSerials(a.inverter_sn)>>)
      [] m = "alarm_list" ->
            InOrder(<<_precondition_page_size(a.page_size),
                      RequireOneOf(a.station_id, a.device_sn),
                      _verify_date("DAY", a.begintime),
                      _verify_date("DAY", a.endtime)>>)
      [] m = "station_day_energy_list" ->
            InOrder(<<_precondition_page_size(a.page_size), _verify_date("DAY", a.time)>>)
      [] m = "station_month_energy_list" ->
            InOrder(<<_precondition_page_size(a.page_size), _verify_date("MONTH", a.month)>>)
      [] m = "station_year_energy_list" ->
            InOrder(<<_precondition_page_size(a.page_size), _verify_date("YEAR", a.year)>>)
      [] m = "epm_detail" -> RequireTruthy(a.epm_sn)
      [] m = "epm_day" -> _verify_date("DAY", a.time)
      [] m = "epm_month" -> _verify_date("MONTH", a.month)
      [] m = "epm_year" -> _verify_date("YEAR", a.year)
      [] m = "epm_all" -> PyNone
      [] m = "weather_detail" -> RequireGiven(a.instrument_sn)

\* the methods that go on to _get_records; the others go on to _get_data
Paged ==
    {"user_station_list", "collector_list", "inverter_list", "inverter_shelf_time",
     "alarm_list", "station_detail_list", "inverter_detail_list",
     "station_day_energy_list", "station_month_energy_list",
     "station_year_energy_list", "epm_list", "weather_list"}

\* the errors of the SoliscloudError family and what each carries
SoliscloudHttpError(statuscode) ==
    [t |-> "exc", e |-> "SoliscloudHttpError", statuscode |-> statuscode,
     message |-> IF statuscode = 408 THEN "system time differs" ELSE "Http status code"]
SoliscloudTimeoutError ==
    [t |-> "exc", e |-> "SoliscloudTimeoutError", message |-> "Timeout error occurred"]
SoliscloudApiError(message, code, response) ==
    [t |-> "exc", e |-> "SoliscloudApiError", message |-> message, code |-> code,
     response |-> response]
\* except (KeyError, TypeError) of _post_data_json
MalformedResponse(result) ==
    SoliscloudApiError(PyStr(<<"M", "a", "l", "f", "o", "r", "m", "e", "d", " ", "s", "e", "r", "v", "e", "r", " ", "r", "e", "s", "p", "o", "n", "s", "e">>), PyStr(<<"U", "n", "k", "n", "o", "w", "n">>), result)
\* the errors of resp.json() that are a ClientError
ClientErrors == {"ContentTypeError"}

\* the rest of _post_data_json: what the POST and resp.json() gave is
\* turned into the data or into an error
\* r.body is what resp.json() gives: the parsed body, or the error it raises
PostResult(r) ==
    IF r.kind = "timeout" THEN SoliscloudTimeoutError
    ELSE IF r.kind = "client_error"
    THEN SoliscloudApiError(Raise("ClientError"), PyStr(<<"U", "n", "k", "n", "o", "w", "n">>), PyNone)
    ELSE IF IsExc(r.body)
    THEN (IF r.body.e \in ClientErrors
          THEN SoliscloudApiError(r.body, PyStr(<<"U", "n", "k", "n", "o", "w", "n">>), PyNone)
          ELSE r.body)
    ELSE IF r.status # 200 THEN SoliscloudHttpError(r.status)
    ELSE IF r.body.t # "dict" THEN MalformedResponse(r.body)
    ELSE IF ~InKeys(r.body.items, <<"c", "o", "d", "e">>) THEN MalformedResponse(r.body)
    ELSE IF GetItem(r.body.items, <<"c", "o", "d", "e">>) # PyStr(<<"0">>)
    THEN (IF ~InKeys(r.body.items, <<"m", "s", "g">>) THEN MalformedResponse(r.body)
          ELSE SoliscloudApiError(GetItem(r.body.items, <<"m", "s", "g">>),
                                  GetItem(r.body.items, <<"c", "o", "d", "e">>), PyNone))
    ELSE IF ~InKeys(r.body.items, <<"d", "a", "t", "a">>) THEN MalformedResponse(r.body)
    ELSE GetItem(r.body.items, <<"d", "a", "t", "a">>)

\* the rest of _get_records: result['page']['records'] or result['records'];
\* only KeyError is caught there
RecordsIn(result) ==
    IF IsExc(result) THEN result
    ELSE IF result.t # "dict" THEN Raise("AttributeError")
    ELSE IF InKeys(result.items, <<"p", "a", "g", "e">>)
    THEN (IF GetItem(result.items, <<"p", "a", "g", "e">>).t # "dict" THEN Raise("TypeError")
          ELSE IF ~InKeys(GetItem(result.items, <<"p", "a", "g", "e">>).items, <<"r", "e", "c", "o", "r", "d", "s">>)
          THEN SoliscloudApiError(PyStr(<<"M", "a", "l", "f", "o", "r", "m", "e", "d", " ", "d", "a", "t", "a">>), result, PyNone)
          ELSE GetItem(GetItem(result.items, <<"p", "a", "g", "e">>).items, <<"r", "e", "c", "o", "r", "d", "s">>))
    ELSE IF ~InKeys(result.items, <<"r", "e", "c", "o", "r", "d", "s">>)
    THEN SoliscloudApiError(PyStr(<<"M", "a", "l", "f", "o", "r", "m", "e", "d", " ", "d", "a", "t", "a">>), result, PyNone)
    ELSE GetItem(result.items, <<"r", "e", "c", "o", "r", "d", "s">>)

\* the session and the number of POSTs it has been asked to send
ClientSession == [t |-> "session", posts |-> 0]
Posted(api) == IF api._session = PyNone THEN 0 ELSE api._session.posts

\* the calls: at most MaxCalls in a row on one SoliscloudAPI object
MaxCalls == 2
PageSizes == {20, 100, 101}
Ids == {PyNone, I(1)}
NmiCodes == {PyNone, PyStr(<<"N">>)}
Days ==
    {PyStr(<<"2", "0", "2", "3", "-", "0", "1", "-", "0", "1">>), PyStr(<<"2", "0", "2", "3", "-", "0", "1", "-", "0", "1">> \o <<"\n">>), PyStr(<<"2", "0", "2", "3">>),
     PyStr(<<"2", "0", "2", "3", "+", "0", "1", "-", "0", "1">>), PyStr(<<>>)}
Months ==
    {PyStr(<<"2", "0", "2", "3", "-", "0", "1">>), PyStr(<<"2", "0", "2", "3", "-", "0", "1">> \o <<"\n">>), PyStr(<<"2", "0", "2", "3">>), PyStr(<<"2", "0", "2", "3", "-", "1">>)}
Years ==
    {PyStr(<<"2", "0", "2", "3">>), PyStr(<<"2", "0", "2", "3">> \o <<"\n">>), PyStr(<<"2", "3">>), PyStr(<<"2", "0", "2", "3", "-", "0", "1">>)}
Serials == {PyNone, PyStr(<<"S", "1">>), I(5), PyList(<<PyStr(<<"S", "1">>), PyStr(<<"S", "2">>)>>)}
ArgsOf(m) ==
    CASE m \in {"user_station_list", "collector_list", "inverter_list",
                "station_detail_list", "inverter_detail_list", "epm_list",
                "weather_list"} ->
            [page_size : PageSizes]
      [] m \in {"station_detail", "station_all"} ->
            [station_id : Ids, nmi_code : NmiCodes]
      [] m = "collector_detail" -> [collector_id : Ids, collector_sn : Ids]
      [] m = "collector_day" -> [time : Days, collector_sn : Ids]
      [] m \in {"inverter_detail", "inverter_all"} -> [inverter_id : Ids, inverter_sn : Ids]
      [] m = "station_day" -> [time : Days, station_id : Ids, nmi_code : NmiCodes]
      [] m = "station_month" -> [month : Months, station_id : Ids, nmi_code : NmiCodes]
      [] m = "station_year" -> [year : Years, station_id : Ids, nmi_code : NmiCodes]
      [] m = "inverter_day" -> [time : Days, inverter_id : Ids, inverter_sn : Ids]
      [] m = "inverter_month" -> [month : Months, inverter_id : Ids, inverter_sn : Ids]
      [] m = "inverter_year" -> [year : Years, inverter_id : Ids, inverter_sn : Ids]
      [] m = "inverter_shelf_time" -> [page_size : PageSizes, inverter_sn : Serials]
      [] m = "alarm_list" ->
            [page_size : {20, 101}, station_id : Ids, device_sn : Ids,
             begintime : {PyNone, PyStr(<<"2", "0", "2", "3", "-", "0", "1", "-", "0", "1">>), PyStr(<<"2", "0", "2", "3", "-", "0", "1", "-", "0", "1">> \o <<"\n">>),
                          PyStr(<<"2", "0", "2", "3">>)},
             endtime : {PyNone, PyStr(<<"2", "0", "2", "3", "-", "0", "1", "-", "0", "2">>), PyStr(<<"2", "0", "2", "3", "-", "0", "1">>)}]
      [] m = "station_day_energy_list" -> [page_size : PageSizes, time : Days]
      [] m = "station_month_energy_list" -> [page_size : PageSizes, month : Months]
      [] m = "station_year_energy_list" -> [page_size : PageSizes, year : Years]
      [] m = "epm_detail" -> [epm_sn : {PyNone, PyStr(<<>>), PyStr(<<"E", "1">>)}]
      [] m = "epm_day" -> [time : Days, epm_sn : {PyStr(<<"E", "1">>)}]
      [] m = "epm_month" -> [month : Months, epm_sn : {PyStr(<<"E", "1">>)}]
      [] m = "epm_year" -> [year : Years, epm_sn : {PyStr(<<"E", "1">>)}]
      [] m = "epm_all" -> [epm_sn : {PyStr(<<"E", "1">>)}]
      [] m = "weather_detail" -> [instrument_sn : {PyNone, PyStr(<<"W", "1">>)}]
Endpoints ==
    {"user_station_list", "station_detail", "collector_list", "collector_detail",
     "collector_day", "inverter_list", "inverter_detail", "station_day",
     "station_month", "station_year", "station_all", "inverter_day",
     "inverter_month", "inverter_year", "inverter_all", "inverter_shelf_time",
     "alarm_list", "station_detail_list", "inverter_detail_list",
     "station_day_energy_list", "station_month_energy_list",
     "station_year_energy_list", "epm_list", "epm_detail", "epm_day", "epm_month",
     "epm_year", "epm_all", "weather_list", "weather_detail"}

\* what the server, or the network, answers to one POST
DataValues ==
    {PyNone, PyList(<<>>), PyDict(<<>>),
     PyDict(<< <<<<"r", "e", "c", "o", "r", "d", "s">>, PyList(<<>>)>> >>),
     PyDict(<< <<<<"p", "a", "g", "e">>, PyDict(<< <<<<"r", "e", "c", "o", "r", "d", "s">>, PyList(<<>>)>> >>)>> >>),
     PyDict(<< <<<<"p", "a", "g", "e">>, PyDict(<<>>)>> >>),
     PyDict(<< <<<<"p", "a", "g", "e">>, PyNone>> >>)}
Bodies ==
    {PyNone, PyList(<<>>), PyDict(<<>>),
     PyDict(<< <<<<"c", "o", "d", "e">>, PyStr(<<"1">>)>>, <<<<"m", "s", "g">>, PyStr(<<"n", "o">>)>> >>),
     PyDict(<< <<<<"c", "o", "d", "e">>, PyStr(<<"0">>)>> >>)}
    \cup {PyDict(<< <<<<"c", "o", "d", "e">>, PyStr(<<"0">>)>>, <<<<"d", "a", "t", "a">>, d>> >>) : d \in DataValues}
Responses ==
    {[kind |-> "timeout"], [kind |-> "client_error"]}
    \cup {[kind |-> "response", status |-> s, body |-> b] :
             s \in {200, 408, 500},
             b \in Bodies \cup {Raise("ContentTypeError"), Raise("JSONDecodeError")}}

\* the domains an object is constructed with; frame.domain keeps the one given
Domains == {PyNone, PyStr(<<"h", "t", "t", "p", "s", ":", "/", "/", "h">>), PyStr(<<"h", "/", "/">>)}
InitClient ==
    /\ pc = "idle"
    /\ \E d \in Domains, s \in {PyNone, ClientSession} :
          /\ self = SoliscloudAPI(d, s)
          /\ frame = [calls |-> 0, before |-> 0, response |-> PyNone, domain |-> d]
    /\ given = PyNone
    /\ ret = PyNone

\* a public endpoint method is called and runs up to its request: it
\* raises what its checks raise, or goes on to _get_records or _get_data
CallEndpoint ==
    /\ pc \in {"idle", "returned"}
    /\ frame.calls < MaxCalls
    /\ \E m \in Endpoints : \E a \in ArgsOf(m) :
          /\ given' = [op |-> m, args |-> a]
          /\ IF IsExc(Precondition(m, a))
             THEN ret' = Precondition(m, a) /\ pc' = "returned"
             ELSE ret' = PyNone /\ pc' = "request"
    /\ frame' = [frame EXCEPT !.calls = frame.calls + 1, !.before = Posted(self),
                              !.response = PyNone]
    /\ UNCHANGED self

\* _get_records and _get_data up to the await: the header, and the url
\* made of self.domain
PrepareRequest ==
    /\ pc = "request"
    /\ IF IsExc(domain(self))
       THEN ret' = domain(self) /\ pc' = "returned"
       ELSE ret' = ret /\ pc' = "post"
    /\ UNCHANGED <<given, self, frame>>

\* _post_data_json up to the await: no session raises SoliscloudError,
\* otherwise session.post is called once
PostDataJson ==
    /\ pc = "post"
    /\ IF self._session = PyNone
       THEN /\ ret' = Raise("SoliscloudError")
            /\ pc' = "returned"
            /\ self' = self
       ELSE /\ self' = [self EXCEPT !._session.posts = @ + 1]
            /\ pc' = "awaiting"
            /\ ret' = ret
    /\ UNCHANGED <<given, frame>>

\* the answer arrives and the call returns or raises
Respond ==
    /\ pc = "awaiting"
    /\ \E r \in Responses :
          /\ ret' = IF given.op \in Paged THEN RecordsIn(PostResult(r)) ELSE PostResult(r)
          /\ frame' = [frame EXCEPT !.response = r]
    /\ pc' = "returned"
    /\ UNCHANGED <<given, self>>

NextClient ==
    \/ CallEndpoint
    \/ PrepareRequest
    \/ PostDataJson
    \/ Respond

SpecClient == InitClient /\ [][NextClient]_vars

(***************************************************************************)
(* The claims about SoliscloudAPI, under SpecClient.                       *)
(***************************************************************************)
\* a string in the required format: YYYY-MM-DD, YYYY-MM or YYYY and
\* nothing else
WellFormed(format, date) == date.t = "str" /\ DatePattern(format, date.s)
Has(a, f) == f \in DOMAIN a
BothOrNeither(x, y) == (x = PyNone) <=> (y = PyNone)
Missing(x) == x = PyNone \/ x = PyStr(<<>>)
\* the caller's parameters are invalid: page_size above 100, both or
\* neither of two mutually exclusive identifiers, a malformed date, month
\* or year, or a missing required identifier
InvalidCall(a) ==
    \/ Has(a, "page_size") /\ a.page_size > 100
    \/ Has(a, "station_id") /\ Has(a, "nmi_code") /\ BothOrNeither(a.station_id, a.nmi_code)
    \/ Has(a, "station_id") /\ Has(a, "device_sn") /\ BothOrNeither(a.station_id, a.device_sn)
    \/ Has(a, "inverter_id") /\ BothOrNeither(a.inverter_id, a.inverter_sn)
    \/ Has(a, "collector_id") /\ BothOrNeither(a.collector_id, a.collector_sn)
    \/ Has(a, "time") /\ ~WellFormed("DAY", a.time)
    \/ Has(a, "begintime") /\ ~WellFormed("DAY", a.begintime)
    \/ Has(a, "endtime") /\ ~WellFormed("DAY", a.endtime)
    \/ Has(a, "month") /\ ~WellFormed("MONTH", a.month)
    \/ Has(a, "year") /\ ~WellFormed("YEAR", a.year)
    \/ Has(a, "collector_sn") /\ ~Has(a, "collector_id") /\ Missing(a.collector_sn)
    \/ Has(a, "inverter_sn") /\ ~Has(a, "inverter_id") /\ Missing(a.inverter_sn)
    \/ Has(a, "epm_sn") /\ Missing(a.epm_sn)
    \/ Has(a, "instrument_sn") /\ Missing(a.instrument_sn)
\* the POSTs issued for the call in progress
PostsOfCall == Posted(self) - frame.before

\* C20: in any sequence of calls of the endpoint methods, a call with
\* invalid parameters raises the validation error and no POST is issued for
\* it, and a call with valid parameters issues exactly one POST and never a
\* second, whatever the outcome.
C20_ValidateThenPostOnce ==
    pc # "idle" =>
       /\ PostsOfCall <= 1
       /\ InvalidCall(given.args) => PostsOfCall = 0
       /\ (pc = "returned" /\ InvalidCall(given.args)) => ret = Raise("SoliscloudError")
       /\ (pc = "returned" /\ ~InvalidCall(given.args)) => PostsOfCall = 1

\* the single family of errors a caller is to catch
SoliscloudErrors ==
    {"SoliscloudError", "SoliscloudHttpError", "SoliscloudTimeoutError",
     "SoliscloudApiError"}
\* the call in progress has sent its request
Requested == pc = "returned" /\ frame.response # PyNone
\* the data of a response is no paged object: not an object, or an object
\* whose page is no object, or one without records
ProperData(d) ==
    /\ d.t = "dict"
    /\ IF InKeys(d.items, <<"p", "a", "g", "e">>)
       THEN /\ GetItem(d.items, <<"p", "a", "g", "e">>).t = "dict"
            /\ InKeys(GetItem(d.items, <<"p", "a", "g", "e">>).items, <<"r", "e", "c", "o", "r", "d", "s">>)
       ELSE InKeys(d.items, <<"r", "e", "c", "o", "r", "d", "s">>)
ProperResponse(r) ==
    /\ r.kind = "response"
    /\ r.status = 200
    /\ ~IsExc(r.body)
    /\ r.body.t = "dict"
    /\ InKeys(r.body.items, <<"c", "o", "d", "e">>)
    /\ GetItem(r.body.items, <<"c", "o", "d", "e">>) = PyStr(<<"0">>)
    /\ InKeys(r.body.items, <<"d", "a", "t", "a">>)

\* C21: every failure of a request made through _get_data or _get_records
\* is an error of the SoliscloudError family, whether timeout, transport
\* failure, non-200 status, vendor code or a response of the wrong shape;
\* no other exception escapes.
C21_FailuresAreSoliscloudErrors ==
    Requested =>
       /\ IsExc(ret) => ret.e \in SoliscloudErrors
       /\ ~ProperResponse(frame.response) => IsExc(ret)
       /\ (given.op \in Paged /\ ProperResponse(frame.response)
             /\ ~ProperData(GetItem(frame.response.body.items, <<"d", "a", "t", "a">>))) => IsExc(ret)

\* what the answer to _post_data_json was, for the methods that hand its
\* outcome on unchanged (those of _get_data)
Outcome == Requested /\ given.op \notin Paged
Answered(r) == r.kind = "response"
VendorCode(r) == GetItem(r.body.items, <<"c", "o", "d", "e">>)
HasVendorCode(r) ==
    Answered(r) /\ ~IsExc(r.body) /\ r.body.t = "dict" /\ InKeys(r.body.items, <<"c", "o", "d", "e">>)

\* C22: status 200 with code "0" returns the data member; status 200 with
\* another code raises the vendor API error carrying the vendor message and
\* code; any other status raises the HTTP error carrying that status,
\* whatever the body; a timeout raises the timeout error; and these are
\* distinct kinds of error.
C22_OutcomeByResponse ==
    Outcome =>
       /\ ProperResponse(frame.response)
             => ret = GetItem(frame.response.body.items, <<"d", "a", "t", "a">>)
       /\ (HasVendorCode(frame.response) /\ frame.response.status = 200
             /\ VendorCode(frame.response) # PyStr(<<"0">>)
             /\ InKeys(frame.response.body.items, <<"m", "s", "g">>))
             => ret = SoliscloudApiError(GetItem(frame.response.body.items, <<"m", "s", "g">>),
                                         VendorCode(frame.response), PyNone)
       /\ (Answered(frame.response) /\ frame.response.status # 200)
             => /\ IsExc(ret)
                /\ ret.e = "SoliscloudHttpError"
                /\ ret.statuscode = frame.response.status
       /\ frame.response.kind = "timeout" => ret = SoliscloudTimeoutError

(***************************************************************************)
(* from_session: Plant, Inverter and Collector objects assembled from the  *)
(* answers of the endpoint methods.  The account is what the server holds; *)
(* every call of an endpoint method is numbered, and the plan names the    *)
(* call that fails and the error it fails with.                            *)
(***************************************************************************)
\* page_size of the list endpoints when the caller passes none
DefaultPageSize == 20
\* the page of records a list endpoint answers with
Page(records, page_no, page_size) ==
    SubSeq(records, (page_no - 1) * page_size + 1,
           IF Len(records) < page_no * page_size THEN Len(records)
           ELSE page_no * page_size)
RECURSIVE Where(_, _, _)
Where(records, key, value) ==
    IF records = <<>> THEN <<>>
    ELSE (IF value = PyNone \/ PyEq(RecordGet(Head(records), key), value)
          THEN <<Head(records)>> ELSE <<>>)
         \o Where(Tail(records), key, value)
\* the record a detail endpoint answers with, or the vendor's error
Detail(records, key, value) ==
    IF Where(records, key, value) = <<>>
    THEN SoliscloudApiError(PyStr(<<"n", "o", " ", "d", "a", "t", "a">>), PyStr(<<"1">>), PyNone)
    ELSE Head(Where(records, key, value))
\* what the server answers to a call that passed the checks of its method
Served(account, m, a) ==
    CASE m = "station_detail_list" -> PyList(Page(account.plants, 1, a.page_size))
      [] m = "inverter_detail_list" -> PyList(Page(account.inverters, 1, a.page_size))
      [] m = "collector_list" ->
            PyList(Page(Where(account.collectors, <<"s", "t", "a", "t", "i", "o", "n", "I", "d">>, a.station_id), 1, a.page_size))
      [] m = "station_detail" -> Detail(account.plants, <<"i", "d">>, a.station_id)
      [] m = "inverter_detail" -> Detail(account.inverters, <<"i", "d">>, a.inverter_id)
      [] m = "collector_detail" ->
            IF a.collector_id # PyNone THEN Detail(account.collectors, <<"i", "d">>, a.collector_id)
            ELSE Detail(account.collectors, <<"s", "n">>, a.collector_sn)
\* await soliscloud.<m>(key_id, secret, ...): call number n of the assembly
ApiCall(account, plan, n, m, a) ==
    IF IsExc(Precondition(m, a)) THEN Precondition(m, a)
    ELSE IF plan.at = n /\ IsExc(IF m \in Paged THEN RecordsIn(PostResult(plan.response))
                                  ELSE PostResult(plan.response))
    THEN (IF m \in Paged THEN RecordsIn(PostResult(plan.response))
          ELSE PostResult(plan.response))
    ELSE Served(account, m, a)
\* except SoliscloudError
IsSoliscloudError(x) ==
    IsExc(x) /\ x.e \in {"SoliscloudError", "SoliscloudHttpError",
                         "SoliscloudTimeoutError", "SoliscloudApiError"}

\* an entity and the children registered under it
WithChildren(e, children) ==
    [t |-> "entity", cls |-> e.cls, data |-> e.data, children |-> children]
\* record[key], inverter.data[key]
Subscript(items, key) == IF InKeys(items, key) THEN GetItem(items, key) ELSE Raise("KeyError")

\* The local variables of one from_session call: the class it is called on,
\* its keyword arguments, the records the endpoint answered with, the index
\* of the record the loop is at, the list built so far, and the entity that
\* waits for its children.  pos is where the call stands: before its
\* endpoint call ("fetch"), in its loop ("loop"), or at its return ("done").
Activation(cls, plant_id, inverter_id, collector_id, collector_sn) ==
    [cls |-> cls, pos |-> "fetch", plant_id |-> plant_id, inverter_id |-> inverter_id,
     collector_id |-> collector_id, collector_sn |-> collector_sn,
     records |-> <<>>, i |-> 1, out |-> <<>>, entity |-> PyNone]
\* the call that runs, and the calls that wait for it
Top(stack) == stack[Len(stack)]
SetTop(stack, f) == [stack EXCEPT ![Len(stack)] = f]
Pop(stack) == SubSeq(stack, 1, Len(stack) - 1)

\* the endpoint method a from_session call awaits, and its arguments
Endpoint(f) ==
    IF f.cls = "Plant"
    THEN (IF f.plant_id = PyNone
          THEN [m |-> "station_detail_list", a |-> [page_size |-> DefaultPageSize]]
          ELSE [m |-> "station_detail", a |-> [station_id |-> f.plant_id, nmi_code |-> PyNone]])
    ELSE IF f.cls = "Inverter"
    THEN (IF f.inverter_id # PyNone
          THEN [m |-> "inverter_detail",
                a |-> [inverter_id |-> f.inverter_id, inverter_sn |-> PyNone]]
          ELSE [m |-> "inverter_detail_list", a |-> [page_size |-> DefaultPageSize]])
    ELSE IF f.plant_id # PyNone
    THEN [m |-> "collector_list",
          a |-> [page_size |-> DefaultPageSize, station_id |-> f.plant_id]]
    ELSE IF f.collector_id # PyNone
    THEN [m |-> "collector_detail",
          a |-> [collector_id |-> f.collector_id, collector_sn |-> PyNone]]
    ELSE IF f.collector_sn # PyNone
    THEN [m |-> "collector_detail",
          a |-> [collector_id |-> PyNone, collector_sn |-> f.collector_sn]]
    ELSE [m |-> "collector_list", a |-> [page_size |-> DefaultPageSize, station_id |-> PyNone]]
\* the detail endpoints answer with one record, which the code puts in a list
DataList(m, data) ==
    IF m \in {"station_detail", "inverter_detail", "collector_detail"} THEN <<data>>
    ELSE data.items

\* the condition of the loop on one record: a bool, or the KeyError of record[key]
KeyIs(record, key, value) ==
    IF value = PyNone THEN PyBool(TRUE)
    ELSE IF IsExc(Subscript(record.items, key)) THEN Subscript(record.items, key)
    ELSE PyBool(PyEq(Subscript(record.items, key), value))
Selected(f, record) ==
    IF f.cls = "Plant" THEN PyBool(TRUE)
    ELSE IF f.cls = "Collector" THEN KeyIs(record, <<"s", "t", "a", "t", "i", "o", "n", "I", "d">>, f.plant_id)
    ELSE IF KeyIs(record, <<"i", "d">>, f.inverter_id) # PyBool(TRUE)
    THEN KeyIs(record, <<"i", "d">>, f.inverter_id)
    ELSE KeyIs(record, <<"s", "t", "a", "t", "i", "o", "n", "I", "d">>, f.plant_id)

\* the from_session call an entity starts for its children: a plant for its
\* inverters by plant.plant_id, an inverter for its collectors by
\* inverter.data["collector_id"]; a collector has none
ChildKey(e) ==
    IF e.cls = "Plant" THEN IdAlias(e)
    ELSE Subscript(e.data.items, <<"c", "o", "l", "l", "e", "c", "t", "o", "r", "_", "i", "d">>)
ChildCall(e, key) ==
    IF e.cls = "Plant" THEN Activation("Inverter", key, PyNone, PyNone, PyNone)
    ELSE Activation("Collector", PyNone, PyNone, key, PyNone)

\* the accounts: plant p has the id 100 + p; inverter g has the id
\* 1000 + g, belongs to a plant and names its collector 5000 + g
MaxPlants == 21
MaxInverters == 21
PlantRecord(p) == PyDict(<< <<<<"i", "d">>, I(100 + p)>> >>)
InverterRecord(g, p) ==
    PyDict(<< <<<<"i", "d">>, I(1000 + g)>>, <<<<"s", "t", "a", "t", "i", "o", "n", "I", "d">>, I(100 + p)>>,
              <<<<"c", "o", "l", "l", "e", "c", "t", "o", "r", "I", "d">>, I(5000 + g)>> >>)
CollectorRecord(g, p) ==
    PyDict(<< <<<<"i", "d">>, I(5000 + g)>>, <<<<"s", "t", "a", "t", "i", "o", "n", "I", "d">>, I(100 + p)>> >>)
\* np plants with ni inverters each
Account(np, ni) ==
    [plants |-> [p \in 1..np |-> PlantRecord(p)],
     inverters |-> [g \in 1..(np * ni) |-> InverterRecord(g, ((g - 1) \div ni) + 1)],
     collectors |-> [g \in 1..(np * ni) |-> CollectorRecord(g, ((g - 1) \div ni) + 1)]]
SmallAccounts == {Account(0, 0), Account(1, 1), Account(2, 2)}
LargeAccounts == {Account(MaxPlants, 0), Account(1, MaxInverters), Account(3, 7)}
\* the plans: no call fails, or call number `at` is answered with `response`
MaxCallAt == 6
NoFailure == [at |-> 0, response |-> PyNone]
FailingResponses ==
    {r \in Responses :
        \/ r.kind # "response"
        \/ r.status = 500 /\ r.body \in {PyDict(<<>>), Raise("ContentTypeError")}
        \/ r.status = 200 /\ r.body \in
              {Raise("JSONDecodeError"), PyDict(<<>>),
               PyDict(<< <<<<"c", "o", "d", "e">>, PyStr(<<"1">>)>>, <<<<"m", "s", "g">>, PyStr(<<"n", "o">>)>> >>),
               PyDict(<< <<<<"c", "o", "d", "e">>, PyStr(<<"0">>)>>, <<<<"d", "a", "t", "a">>, PyNone>> >>),
               PyDict(<< <<<<"c", "o", "d", "e">>, PyStr(<<"0">>)>>, <<<<"d", "a", "t", "a">>, PyDict(<< <<<<"p", "a", "g", "e">>, PyNone>> >>)>> >>),
               PyDict(<< <<<<"c", "o", "d", "e">>, PyStr(<<"0">>)>>, <<<<"d", "a", "t", "a">>, PyDict(<<>>)>> >>)}}
Plans == {[at |-> k, response |-> r] : k \in 1..MaxCallAt, r \in FailingResponses}

InitSession ==
    /\ pc = "call"
    /\ \E account \in SmallAccounts \cup LargeAccounts :
       \E plan \in {NoFailure} \cup (IF account \in SmallAccounts THEN Plans ELSE {}) :
          \/ \E plant_id \in {PyNone, I(101)} :
                given = [op |-> "Plant.from_session", account |-> account, plan |-> plan,
                         plant_id |-> plant_id, inverter_id |-> PyNone,
                         collector_id |-> PyNone]
          \/ \E plant_id \in {PyNone, I(101)}, inverter_id \in {PyNone, I(1001)} :
                given = [op |-> "Inverter.from_session", account |-> account, plan |-> plan,
                         plant_id |-> plant_id, inverter_id |-> inverter_id,
                         collector_id |-> PyNone]
          \/ \E plant_id \in {PyNone, I(101)}, collector_id \in {PyNone, I(5001)} :
                given = [op |-> "Collector.from_session", account |-> account, plan |-> plan,
                         plant_id |-> plant_id, inverter_id |-> PyNone,
                         collector_id |-> collector_id]
    /\ self = PyNone
    /\ ret = PyNone
    /\ frame = [calls |-> 0, failed |-> {}, stack |-> <<>>]

\* The caller starts one of the three class methods.  A from_session call
\* runs in steps: it awaits its endpoint, goes through the records one at a
\* time, starts the from_session call of the children of each entity it
\* creates, and returns its list.  frame.calls counts the endpoint calls and
\* frame.failed holds the numbers of those that raised.
Start(f) ==
    /\ pc = "call"
    /\ pc' = "running"
    /\ frame' = [frame EXCEPT !.stack = <<f>>]
    /\ UNCHANGED <<given, self, ret>>
PlantFromSession ==
    /\ given.op = "Plant.from_session"
    /\ Start(Activation("Plant", given.plant_id, PyNone, PyNone, PyNone))
InverterFromSession ==
    /\ given.op = "Inverter.from_session"
    /\ Start(Activation("Inverter", given.plant_id, given.inverter_id, PyNone, PyNone))
CollectorFromSession ==
    /\ given.op = "Collector.from_session"
    /\ Start(Activation("Collector", given.plant_id, PyNone, given.collector_id, PyNone))

\* an exception no from_session catches ends the assembly
Escape(e, calls, failed) ==
    /\ pc' = "returned"
    /\ ret' = e
    /\ frame' = [calls |-> calls, failed |-> failed, stack |-> <<>>]
\* the call that runs goes on with the local variables f
Continue(f, calls, failed) ==
    /\ frame' = [calls |-> calls, failed |-> failed, stack |-> SetTop(frame.stack, f)]
    /\ UNCHANGED <<pc, ret>>

\* data = await soliscloud.<endpoint>(...); except SoliscloudError: pass
AwaitEndpoint ==
    /\ pc = "running"
    /\ Top(frame.stack).pos = "fetch"
    /\ \E f \in {Top(frame.stack)} :
       \E c \in {Endpoint(f)} :
       \E data \in {ApiCall(given.account, given.plan, frame.calls + 1, c.m, c.a)} :
          IF IsSoliscloudError(data)
          THEN Continue([f EXCEPT !.pos = "done"], frame.calls + 1,
                        frame.failed \cup {frame.calls + 1})
          ELSE IF IsExc(data)
          THEN Escape(data, frame.calls + 1, frame.failed \cup {frame.calls + 1})
          ELSE Continue([f EXCEPT !.pos = "loop", !.records = DataList(c.m, data)],
                        frame.calls + 1, frame.failed)
    /\ UNCHANGED <<given, self>>

\* one pass of `for record in data`: a record that is not selected is
\* skipped; a selected one becomes an entity, which a Collector call appends
\* and a Plant or Inverter call keeps while the call for its children runs
Create(f, e) ==
    IF IsExc(e) THEN Escape(e, frame.calls, frame.failed)
    ELSE IF f.cls = "Collector"
    THEN Continue([f EXCEPT !.i = f.i + 1, !.out = Append(f.out, e)], frame.calls, frame.failed)
    ELSE \E key \in {ChildKey(e)} :
            IF IsExc(key) THEN Escape(key, frame.calls, frame.failed)
            ELSE /\ frame' = [frame EXCEPT !.stack =
                                 Append(SetTop(frame.stack, [f EXCEPT !.entity = e]),
                                        ChildCall(e, key))]
                 /\ UNCHANGED <<pc, ret>>
LoopRecord ==
    /\ pc = "running"
    /\ Top(frame.stack).pos = "loop"
    /\ \E f \in {Top(frame.stack)} :
          IF f.i > Len(f.records)
          THEN Continue([f EXCEPT !.pos = "done"], frame.calls, frame.failed)
          ELSE \E selected \in {Selected(f, f.records[f.i])} :
                  IF IsExc(selected) THEN Escape(selected, frame.calls, frame.failed)
                  ELSE IF ~selected.v
                  THEN Continue([f EXCEPT !.i = f.i + 1], frame.calls, frame.failed)
                  ELSE \E e \in {NewEntity(f.cls, f.records[f.i])} : Create(f, e)
    /\ UNCHANGED <<given, self>>

\* return the list: to the caller of the class method, or to the call that
\* waits for it, which registers the list as the children of its entity and
\* appends the entity
ReturnList ==
    /\ pc = "running"
    /\ Top(frame.stack).pos = "done"
    /\ \E f \in {Top(frame.stack)} :
          IF Len(frame.stack) = 1
          THEN /\ pc' = "returned"
               /\ ret' = PyList(f.out)
               /\ frame' = [frame EXCEPT !.stack = <<>>]
          ELSE \E up \in {frame.stack[Len(frame.stack) - 1]} :
                  /\ frame' = [frame EXCEPT !.stack =
                                  SetTop(Pop(frame.stack),
                                         [up EXCEPT !.i = up.i + 1, !.entity = PyNone,
                                                    !.out = Append(up.out,
                                                                   WithChildren(up.entity, f.out))])]
                  /\ UNCHANGED <<pc, ret>>
    /\ UNCHANGED <<given, self>>

NextSession ==
    \/ PlantFromSession
    \/ InverterFromSession
    \/ CollectorFromSession
    \/ AwaitEndpoint
    \/ LoopRecord
    \/ ReturnList

SpecSession == InitSession /\ [][NextSession]_vars


\* what the account holds, as entities: the collector an inverter names,
\* the inverters of a plant, and all plants
RECURSIVE EntitiesFor(_, _, _)
CollectorsUnder(account, inverter) ==
    EntitiesFor(account, "Collector",
                Where(account.collectors, <<"i", "d">>, RecordGet(inverter, <<"c", "o", "l", "l", "e", "c", "t", "o", "r", "I", "d">>)))
InvertersUnder(account, plant) ==
    EntitiesFor(account, "Inverter",
                Where(account.inverters, <<"s", "t", "a", "t", "i", "o", "n", "I", "d">>, RecordGet(plant, <<"i", "d">>)))
EntityFor(account, cls, record) ==
    IF cls = "Collector" THEN NewEntity(cls, record)
    ELSE IF cls = "Inverter"
    THEN WithChildren(NewEntity(cls, record), CollectorsUnder(account, record))
    ELSE WithChildren(NewEntity(cls, record), InvertersUnder(account, record))
EntitiesFor(account, cls, records) ==
    [k \in 1..Len(records) |-> EntityFor(account, cls, records[k])]
\* a from_session call returned, no endpoint call having failed
Assembled(op) == pc = "returned" /\ given.op = op /\ given.plan = NoFailure

\* C24: Plant.from_session without plant_id returns a Plant for every plant
\* of the account, each with an Inverter for every inverter of that plant,
\* each with its collectors; Inverter.from_session without plant_id and
\* inverter_id returns an Inverter for every inverter of the account,
\* however many plants and inverters the account has.
C24_WholeAccountAssembled ==
    /\ Assembled("Plant.from_session") /\ given.plant_id = PyNone
          => ret = PyList(EntitiesFor(given.account, "Plant", given.account.plants))
    /\ Assembled("Inverter.from_session") /\ given.plant_id = PyNone
                                          /\ given.inverter_id = PyNone
          => ret = PyList(EntitiesFor(given.account, "Inverter", given.account.inverters))

\* what a from_session call with its filters gives while every endpoint
\* call succeeds, on an account whose lists fit on one page
RECURSIVE Degraded(_, _)
Filtered(op, account, plant_id, inverter_id, collector_id) ==
    IF op = "Plant.from_session"
    THEN EntitiesFor(account, "Plant", Where(account.plants, <<"i", "d">>, plant_id))
    ELSE IF op = "Inverter.from_session"
    THEN EntitiesFor(account, "Inverter",
                     Where(Where(account.inverters, <<"i", "d">>, inverter_id), <<"s", "t", "a", "t", "i", "o", "n", "I", "d">>, plant_id))
    ELSE IF plant_id # PyNone
    THEN EntitiesFor(account, "Collector", Where(account.collectors, <<"s", "t", "a", "t", "i", "o", "n", "I", "d">>, plant_id))
    ELSE EntitiesFor(account, "Collector", Where(account.collectors, <<"i", "d">>, collector_id))
\* got is the list full with some child lists left empty
Degraded(got, full) ==
    /\ Len(got) = Len(full)
    /\ \A k \in 1..Len(got) :
          \/ got[k] = full[k]
          \/ /\ "children" \in DOMAIN full[k]
             /\ "children" \in DOMAIN got[k]
             /\ got[k] = WithChildren(full[k], got[k].children)
             /\ got[k].children = <<>> \/ Degraded(got[k].children, full[k].children)
\* a from_session call returned after an endpoint call of it had failed
AfterFailure == pc = "returned" /\ given.op \in {"Plant.from_session", "Inverter.from_session", "Collector.from_session"} /\ frame.failed # {}

\* C28: from_session never raises an error of the SoliscloudError family;
\* when an endpoint call made during the assembly fails it returns the list
\* of the entities completed before the failure, empty when its own
\* endpoint call failed, and a failure while the children of an entity are
\* fetched leaves that entity in the list with an empty child list.
C28_FailuresLeaveLists ==
    /\ pc = "returned" => ~IsSoliscloudError(ret)
    /\ AfterFailure =>
          /\ ~IsExc(ret)
          /\ ret.t = "list"
          /\ IF 1 \in frame.failed THEN ret.items = <<>>
             ELSE Degraded(ret.items,
                           Filtered(given.op, given.account, given.plant_id,
                                    given.inverter_id, given.collector_id))

\* alarm_list is the call in progress; what its checks raised, if anything
AlarmListCall == pc # "idle" /\ given.op = "alarm_list"
Rejection == Precondition(given.op, given.args)
\* begintime and endtime left at their default
DefaultDates(a) == a.begintime = PyNone /\ a.endtime = PyNone
\* a valid page size and exactly one of station_id and device_sn
OneIdentifier(a) == a.page_size <= 100 /\ ~BothOrNeither(a.station_id, a.device_sn)

\* C25: begintime and endtime are optional parameters of alarm_list: a call
\* with a valid page size and exactly one of station_id and device_sn that
\* leaves both dates at None passes validation, and any rejection of the
\* parameters of alarm_list is a SoliscloudError.
C25_AlarmListDatesOptional ==
    AlarmListCall =>
       /\ (OneIdentifier(given.args) /\ DefaultDates(given.args)) => ~IsExc(Rejection)
       /\ IsExc(Rejection) =>
             /\ pc = "returned"
             /\ ret = Rejection
             /\ ret.e \in SoliscloudErrors

\* s without the slashes at its end: the part of s in front of its last run
\* of slashes
Stripped(s, out) ==
    \E k \in 0..Len(s) :
       /\ out = SubSeq(s, 1, k)
       /\ k = 0 \/ s[k] # "/"
       /\ \A j \in (k + 1)..Len(s) : s[j] = "/"
\* the call in progress failed while it made its url of self.domain
NoUrl == pc = "returned" /\ frame.response = PyNone /\ ret = Raise("AttributeError")

\* C30: after SoliscloudAPI(domain, session) the domain property is always
\* defined: it is the given domain without its trailing slashes, and
\* DEFAULT_DOMAIN when the given domain is None, so that every later
\* endpoint call can make its url.
C30_DomainDefined ==
    /\ ~IsExc(domain(self))
    /\ frame.domain # PyNone
          => domain(self).t = "str" /\ Stripped(frame.domain.s, domain(self).s)
    /\ frame.domain = PyNone => domain(self) = PyStr(DEFAULT_DOMAIN)
    /\ ~NoUrl

(***************************************************************************)
(* Invocations of SolisDataFactory.create that run side by side.  Each     *)
(* task calls create on a record the caller holds; two tasks may be given  *)
(* the same record.  What the tasks could share is kept in self: the       *)
(* records (objects) and the class attribute UNITS of the SI families,     *)
(* the only state outside its locals that the code of create and of the    *)
(* constructors assigns to.  given, pc, frame and ret hold one entry per   *)
(* task; a step is one pass of the loop of create.                         *)
(***************************************************************************)
MaxTasks == 2
Tasks == 1..MaxTasks
Objects == {"a", "b"}
TaskInputs ==
    { << <<<<"u", "A", "c", "1">>, I(230)>>, <<<<"u", "A", "c", "1", "S", "t", "r">>, PyStr(<<"V">>)>>, <<<<"p", "a", "c">>, I(2)>>, <<<<"p", "a", "c", "S", "t", "r">>, PyStr(<<"k", "W">>)>> >>,
      << <<<<"d", "c", "I", "n", "p", "u", "t", "t", "y", "p", "e">>, I(0)>>, <<<<"p", "o", "w", "1">>, I(400)>>, <<<<"p", "o", "w", "2">>, I(410)>> >>,
      << <<<<"e", "T", "o", "d", "a", "y">>, PyStr(<<"x">>)>>, <<<<"e", "T", "o", "d", "a", "y", "S", "t", "r">>, PyStr(<<"k", "W", "h">>)>>, <<<<"f", "a", "c">>, I(50)>> >> }

\* UNITS of each family when the module is loaded: EnergyType ...
\* FrequencyType all define it
ClassUNITSUndefined == [cls \in SiClasses |-> {}]
ClassUNITS == [cls \in SiClasses |-> UNITS(cls)]
\* SiType.__init__: an empty UNITS of the class is filled in on first use
SiTypeInit(units, cls) ==
    IF units[cls] = {} THEN [units EXCEPT ![cls] = UNITS(cls)] ELSE units
\* the SI families of which a pass of the loop made a value
RECURSIVE FamiliesMade(_)
FamiliesMade(d) ==
    IF IsExc(d) THEN {}
    ELSE IF d.t = "dim" THEN {d.cls} \cap SiClasses
    ELSE IF d.t = "ListType" THEN UNION {FamiliesMade(d.items[k]) : k \in 1..Len(d.items)}
    ELSE IF d.t = "DictType" THEN UNION {FamiliesMade(d.items[k][2]) : k \in 1..Len(d.items)}
    ELSE {}
UnitsAfter(units, classes) ==
    [cls \in SiClasses |-> IF cls \in classes THEN SiTypeInit(units, cls)[cls] ELSE units[cls]]

InitTasks ==
    /\ pc = [t \in Tasks |-> "call"]
    /\ \E objects \in [Objects -> TaskInputs], args \in [Tasks -> Objects] :
          /\ self = [objects |-> objects, UNITS |-> ClassUNITS]
          /\ given = [t \in Tasks |->
                         [op |-> "create", type |-> INVERTER, input |-> args[t],
                          passed |-> objects[args[t]]]]
    /\ ret = [t \in Tasks |-> PyNone]
    /\ frame = [t \in Tasks |-> PyNone]

\* the record task t was given, as it is now
InputOf(t) == self.objects[given[t].input]
\* task t raises or returns x
Finish(t, x) ==
    /\ pc' = [pc EXCEPT ![t] = "returned"]
    /\ ret' = [ret EXCEPT ![t] = x]
\* create up to its loop: data = DictType(), nr_of_strings
TaskEnter ==
    \E t \in Tasks :
       /\ pc[t] = "call"
       /\ \E nr \in {NrOfStrings(InputOf(t))} :
             IF IsExc(nr) THEN Finish(t, nr) /\ UNCHANGED frame
             ELSE /\ pc' = [pc EXCEPT ![t] = "loop"]
                  /\ frame' = [frame EXCEPT ![t] = [i |-> 1, nr |-> nr, data |-> DictType(<<>>)]]
                  /\ UNCHANGED ret
       /\ UNCHANGED <<given, self>>
\* one pass of `for key in keys`, the constructors it calls included
TaskPass ==
    \E t \in Tasks :
       /\ pc[t] = "loop"
       /\ frame[t].i <= Len(InputOf(t))
       /\ \E data \in {CreateKey(given[t].type, InputOf(t), InputOf(t)[frame[t].i][1],
                                 frame[t].data, frame[t].nr)} :
             /\ IF IsExc(data) THEN Finish(t, data) /\ UNCHANGED frame
                ELSE /\ frame' = [frame EXCEPT ![t] = [i |-> frame[t].i + 1, nr |-> frame[t].nr,
                                                       data |-> data]]
                     /\ UNCHANGED <<pc, ret>>
             /\ self' = [self EXCEPT !.UNITS = UnitsAfter(self.UNITS, FamiliesMade(data))]
       /\ UNCHANGED given
\* return data
TaskReturn ==
    \E t \in Tasks :
       /\ pc[t] = "loop"
       /\ frame[t].i > Len(InputOf(t))
       /\ Finish(t, frame[t].data)
       /\ UNCHANGED <<given, self, frame>>

NextTasks ==
    \/ TaskEnter
    \/ TaskPass
    \/ TaskReturn

SpecTasks == InitTasks /\ [][NextTasks]_vars

\* what task t holds: its position, its locals and its result
Locals(t) == <<pc[t], frame[t], ret[t]>>

\* C26: create is pure and safe to run concurrently: in any interleaving of
\* any number of invocations the input records stay as they were passed,
\* no step writes to state the invocations share, a step of one invocation
\* leaves the locals of the others alone, and each invocation ends with the
\* output that its input gives when create runs alone.
C26_CreateIsPure ==
    /\ [](\A t \in Tasks : InputOf(t) = given[t].passed)
    /\ [][self' = self]_vars
    /\ [][\A t, u \in Tasks : (t # u /\ Locals(t)' # Locals(t)) => Locals(u)' = Locals(u)]_vars
    /\ [](\A t \in Tasks :
             pc[t] = "returned" => ret[t] = create(given[t].type, given[t].passed))
\* two invocations on the same record are both inside their loops, each
\* past its first key, and one has made a value of an SI family
C26_Witness ==
    /\ given[1].input = given[2].input
    /\ pc[1] = "loop" /\ pc[2] = "loop"
    /\ frame[1].i > 1 /\ frame[2].i > 1
    /\ FamiliesMade(frame[1].data) # {}

(***************************************************************************)
(* The structure of the output of create, under SpecCreate.                *)
(***************************************************************************)
\* the fields of the input that create hands to _create_value and does not
\* drop for the number of strings
Raw(input, nr) ==
    {i \in 1..Len(input) : ~_key_is_unit(input[i][1]) /\ ~Dropped(NewKey(input[i][1]), nr)}
\* those of them with the canonical key new_key
RawOf(input, nr, new_key) == {i \in Raw(input, nr) : NewKey(input[i][1]) = new_key}
FirstOf(S) == CHOOSE i \in S : \A j \in S : i <= j
LastOf(S) == CHOOSE i \in S : \A j \in S : j <= i
\* the value create makes of field i
ValueOf(type, input, i) ==
    _create_value(type, NewKey(input[i][1]),
                  TimestampValue(NewKey(input[i][1]), input[i][2]),
                  ResolveUnit(input, input[i][1], NewKey(input[i][1])))
\* out is the list made of the array value: as many elements, in the same
\* order, each object normalized on its own with the same type
ListOf(type, value, out) ==
    /\ out.t = "ListType"
    /\ Len(out.items) = Len(value.items)
    /\ \A j \in 1..Len(value.items) :
          value.items[j].t = "dict" => out.items[j] = create(type, value.items[j].items)
\* create returned a record
Created == pc = "returned" /\ given.op = "create" /\ ~IsExc(ret)

\* C27: the output of create has the structure of its input: a nested
\* object becomes the record create makes of it with the same type, an
\* array of n elements a list of n elements in the same order with its
\* objects normalized, the output keys stand in the order of the input keys,
\* and of the raw keys of one canonical key the last one gives the value.
C27_OutputMirrorsInput ==
    Created =>
       /\ \A a \in 1..Len(ret.items) :
             /\ RawOf(given.input, frame.nr, ret.items[a][1]) # {}
             /\ ret.items[a][2] =
                   ValueOf(given.type, given.input,
                           LastOf(RawOf(given.input, frame.nr, ret.items[a][1])))
       /\ \A a, b \in 1..Len(ret.items) :
             a < b => FirstOf(RawOf(given.input, frame.nr, ret.items[a][1]))
                         < FirstOf(RawOf(given.input, frame.nr, ret.items[b][1]))
       /\ \A i \in Raw(given.input, frame.nr) :
             (/\ i = LastOf(RawOf(given.input, frame.nr, NewKey(given.input[i][1])))
              /\ given.input[i][2].t \in {"dict", "list"})
             => /\ InKeys(ret.items, NewKey(given.input[i][1]))
                /\ given.input[i][2].t = "dict"
                      => GetItem(ret.items, NewKey(given.input[i][1]))
                            = create(given.type, given.input[i][2].items)
                /\ given.input[i][2].t = "list"
                      => ListOf(given.type, given.input[i][2],
                                GetItem(ret.items, NewKey(given.input[i][1])))

(***************************************************************************)
(* The child lists of Plant and Inverter objects.  self is the heap: the   *)
(* list objects by name (lists), and for each plant and inverter the list  *)
(* its attribute _inverters or _collectors refers to.  Every entity gets a *)
(* list of its own in __init__; the caller holds lists of its own, which   *)
(* it passes to add_inverters and add_collectors.  given is the last call. *)
(***************************************************************************)
MaxChildren == 2
Plants == {"plant1", "plant2"}
Inverters == {"inverter1", "inverter2"}
Collectors == {"collector1"}
\* the lists made by the constructors, and those the caller made
OwnList(e) == <<e, 0>>
InverterLists == {<<"inverters", 1>>}
CollectorLists == {<<"collectors", 1>>}
CallerLists == InverterLists \cup CollectorLists
ListNames == {OwnList(e) : e \in Plants \cup Inverters} \cup CallerLists
\* the sequences of at most n elements of S
SeqsUpTo(S, n) == UNION {[1..k -> S] : k \in 0..n}

\* Plant(data): self._inverters = []; Inverter(data): self._collectors = list()
NewHeap(lists) ==
    [lists |-> [l \in ListNames |-> IF l \in CallerLists THEN lists[l] ELSE <<>>],
     _inverters |-> [p \in Plants |-> OwnList(p)],
     _collectors |-> [i \in Inverters |-> OwnList(i)]]
InitChildren ==
    /\ pc = "idle"
    /\ \E inverters \in [InverterLists -> SeqsUpTo(Inverters, MaxChildren - 1)],
          collectors \in [CollectorLists -> SeqsUpTo(Collectors, MaxChildren - 1)] :
          self = NewHeap([l \in CallerLists |->
                             IF l \in InverterLists THEN inverters[l] ELSE collectors[l]])
    /\ given = PyNone
    /\ ret = PyNone
    /\ frame = PyNone

\* plant.add_inverters(inverters): self._inverters = inverters
add_inverters ==
    \E plant \in Plants, inverters \in InverterLists :
       /\ given' = [op |-> "add_inverters", on |-> plant, arg |-> inverters]
       /\ self' = [self EXCEPT !._inverters[plant] = inverters]
       /\ UNCHANGED <<pc, ret, frame>>
\* plant.add_inverter(inverter): self._inverters.append(inverter)
add_inverter ==
    \E plant \in Plants, inverter \in Inverters :
       /\ Len(self.lists[self._inverters[plant]]) < MaxChildren
       /\ given' = [op |-> "add_inverter", on |-> plant, arg |-> inverter]
       /\ self' = [self EXCEPT !.lists[self._inverters[plant]] = Append(@, inverter)]
       /\ UNCHANGED <<pc, ret, frame>>
\* inverter.add_collectors(collectors): self._collectors = collectors
add_collectors ==
    \E inverter \in Inverters, collectors \in CollectorLists :
       /\ given' = [op |-> "add_collectors", on |-> inverter, arg |-> collectors]
       /\ self' = [self EXCEPT !._collectors[inverter] = collectors]
       /\ UNCHANGED <<pc, ret, frame>>
\* inverter.add_collector(collector): self._collectors.append(collector)
add_collector ==
    \E inverter \in Inverters, collector \in Collectors :
       /\ Len(self.lists[self._collectors[inverter]]) < MaxChildren
       /\ given' = [op |-> "add_collector", on |-> inverter, arg |-> collector]
       /\ self' = [self EXCEPT !.lists[self._collectors[inverter]] = Append(@, collector)]
       /\ UNCHANGED <<pc, ret, frame>>

NextChildren ==
    \/ add_inverters
    \/ add_inverter
    \/ add_collectors
    \/ add_collector

SpecChildren == InitChildren /\ [][NextChildren]_vars

\* plant.inverters and inverter.collectors in the heap h
Children(h, e) ==
    IF e \in Plants THEN h.lists[h._inverters[e]] ELSE h.lists[h._collectors[e]]
\* the step is a call of one of the methods named
Called(ops) == given' # PyNone /\ given'.op \in ops /\ self' # self
\* the child lists of the entities other than e stay as they are
OthersKeep(e) ==
    \A o \in (Plants \cup Inverters) \ {e} : Children(self', o) = Children(self, o)
\* the lists the caller made stay as they are
CallerKeeps == \A l \in CallerLists : self'.lists[l] = self.lists[l]

\* C29: in any sequence of add_inverters, add_inverter, add_collectors and
\* add_collector calls, adding a child to one entity appends it at the end
\* of the child list of that entity, and registering a list makes that list
\* the child list; either call leaves the child lists of all other entities
\* unchanged and leaves unchanged every list of the caller, so that adding
\* children one by one gives the child sequence of registering them at once.
C29_AddChangesOneChildList ==
    [][/\ Called({"add_inverter", "add_collector"})
          => /\ Children(self', given'.on) = Append(Children(self, given'.on), given'.arg)
             /\ OthersKeep(given'.on)
             /\ CallerKeeps
       /\ Called({"add_inverters", "add_collectors"})
          => /\ Children(self', given'.on) = self.lists[given'.arg]
             /\ OthersKeep(given'.on)
             /\ CallerKeeps]_vars
=============================================================================
